---------------------------- MODULE Spec2Model ----------------------------
(***************************************************************************)
(* Request-dispatch engine of the broxy reverse proxy: the round-robin     *)
(* LoadBalancer, header Filters, BodyFilters, the Middleware pipeline,     *)
(* Service construction and dispatch, and ServiceBundle first-match        *)
(* routing.                                                                *)
(*                                                                         *)
(* Four specifications share the state:                                    *)
(*   SpecLB    threads that construct load balancers and call get_upstream *)
(*             concurrently (src/src/load_balancer.rs tests);              *)
(*   Spec      a connection task that runs ServiceBundle::call and the     *)
(*             selected Service::process future, one await point per step; *)
(*   SpecEval  a middleware pipeline or the header filters of a service    *)
(*             called directly, one Filter::filter call per step;          *)
(*   SpecServer the accept loop of run_server: Server::accept, the two     *)
(*             acceptors and the connection tasks they spawn, each         *)
(*             serving requests through ServiceBundle::call.               *)
(***************************************************************************)
EXTENDS Integers, Sequences, FiniteSets, TLC

VARIABLES
    lbs,        \* LbIds -> LoadBalancer {servers, current_index} or NoLb
    thr,        \* Threads -> a thread calling get_upstream: pc and locals
    picks,      \* LbIds -> history: the completed get_upstream calls, in return order
    overlap,    \* history: some get_upstream started while another was in flight
    panicked,   \* "none", or the panic that aborted the process
    services,   \* the slice behind ServiceBundle.services
    conn,       \* Conns -> the connection task: peer, request in flight, locals, trace
    nreq,       \* history: number of requests received so far
    run,        \* a filter chain or middleware pipeline called directly: inputs, progress, result
    server      \* the Server: its bundle, acceptor, accept loop, and the tasks it spawned

vars == <<lbs, thr, picks, overlap, panicked, services, conn, nreq, run, server>>

---------------------------------------------------------------------------
(* Bounds of the model *)

\* width in bits of the modelled AtomicUsize (a scaled-down machine word)
UsizeBits == 3
\* longest server list handed to LoadBalancer::new
MaxServers == 3
\* number of get_upstream calls per load balancer in SpecLB
MaxPicks == 9
\* number of requests a behaviour of Spec receives
MaxRequests == 1
\* longest middleware pipeline called directly in SpecEval
MaxSteps == 3
\* number of outcomes of TcpListener::accept a behaviour of SpecServer sees
MaxAccepts == 3
\* number of requests a behaviour of SpecServer receives
MaxServed == 2

Threads == {"t1", "t2"}
LbIds == {"lb1", "lb2"}
Conns == {"c1"}

RECURSIVE Pow2(_)
Pow2(n) == IF n = 0 THEN 1 ELSE 2 * Pow2(n - 1)

\* AtomicUsize arithmetic wraps modulo 2^UsizeBits
UsizeModulus == Pow2(UsizeBits)

---------------------------------------------------------------------------
(* src/src/upstream.rs, src/src/load_balancer.rs, src/broxy-core/src/load_balancer.rs *)

\* Upstream: the n-th backend of main.rs listens on port 9943 + n
FirstPort == 9944
Upstream(n) == [address |-> FirstPort + n - 1, use_ssl |-> FALSE]

ServerList(n) == [i \in 1..n |-> Upstream(i)]
ServerLists == {ServerList(n) : n \in 0..MaxServers}
Upstreams == {Upstream(i) : i \in 1..(MaxServers + 1)}

NoLb == [servers |-> <<>>, current_index |-> 0, built |-> FALSE]
Panic == [servers |-> <<>>, current_index |-> 0, built |-> FALSE, panic |-> TRUE]

\* mutant: the constructor without its assertion
LoadBalancer_new_unchecked(srv) ==
    [servers |-> srv, current_index |-> 0, built |-> TRUE]

\* LoadBalancer::new: assert!(!servers.is_empty()), counter starts at 0
LoadBalancer_new(srv) ==
    IF Len(srv) > 0
    THEN [servers |-> srv, current_index |-> 0, built |-> TRUE]
    ELSE Panic

\* mutant: a load followed by a store of the same value (the increment is lost)
fetch_add_lost(cur) == [prev |-> cur, next |-> cur]

\* AtomicUsize::fetch_add(1, Relaxed): one atomic read-modify-write, wrapping
fetch_add(cur) == [prev |-> cur, next |-> (cur + 1) % UsizeModulus]

\* mutant: the index taken from the post-increment value
get_index_off_by_one(current, len) == (current + 1) % len

\* let index = current % self.servers.len()
get_index(current, len) == current % len

\* Vec::get_unchecked: the element when in bounds, otherwise undefined
\* behaviour (any upstream the build may happen to produce)
get_unchecked(srv, index) ==
    IF index < Len(srv) THEN {srv[index + 1]} ELSE Upstreams

IdleThread == [pc |-> "idle", lb |-> "lb1", current |-> 0]

RECURSIVE SumLen(_, _)
SumLen(f, S) ==
    IF S = {} THEN 0
    ELSE LET x == CHOOSE y \in S : TRUE IN Len(f[x]) + SumLen(f, S \ {x})

InFlight(id) == {u \in Threads : thr[u].pc = "fetched" /\ thr[u].lb = id}

\* get_upstream calls started so far, on all load balancers
Started == SumLen(picks, LbIds) + Cardinality({u \in Threads : thr[u].pc = "fetched"})

\* a thread (or a test) constructs a load balancer
LbNew(id, srv) ==
    /\ panicked = "none"
    /\ ~lbs[id].built
    /\ LET lb == LoadBalancer_new(srv) IN
         IF lb.built
         THEN /\ lbs' = [lbs EXCEPT ![id] = lb]
              /\ panicked' = panicked
         ELSE /\ lbs' = lbs
              /\ panicked' = "assert_servers_nonempty"
    /\ UNCHANGED <<thr, picks, overlap, services, conn, nreq, run, server>>

\* get_upstream, line 50: the atomic fetch_add
GetUpstreamFetch(t, id) ==
    /\ panicked = "none"
    /\ lbs[id].built
    /\ thr[t].pc = "idle"
    /\ Started < MaxPicks
    /\ LET fa == fetch_add(lbs[id].current_index) IN
         /\ lbs' = [lbs EXCEPT ![id].current_index = fa.next]
         /\ thr' = [thr EXCEPT ![t] = [pc |-> "fetched", lb |-> id, current |-> fa.prev]]
    /\ overlap' = (overlap \/ \E u \in Threads \ {t} : thr[u].pc = "fetched")
    /\ UNCHANGED <<picks, panicked, services, conn, nreq, run, server>>

\* get_upstream, lines 51-53: index, get_unchecked, return
GetUpstreamReturn(t) ==
    /\ panicked = "none"
    /\ thr[t].pc = "fetched"
    /\ LET id == thr[t].lb
           srv == lbs[id].servers IN
         IF Len(srv) = 0
         THEN \* remainder with a divisor of zero panics
              /\ panicked' = "remainder_by_zero"
              /\ UNCHANGED <<picks, thr>>
         ELSE /\ \E u \in get_unchecked(srv, get_index(thr[t].current, Len(srv))) :
                    picks' = [picks EXCEPT ![id] = Append(@,
                                 [current |-> thr[t].current,
                                  index |-> get_index(thr[t].current, Len(srv)),
                                  server |-> u])]
              /\ thr' = [thr EXCEPT ![t] = IdleThread]
              /\ panicked' = panicked
    /\ UNCHANGED <<lbs, overlap, services, conn, nreq, run, server>>


---------------------------------------------------------------------------
(* Requests: parsed header parts plus the Incoming body *)

NoHost == "none"
Methods == {"GET", "POST"}
Hosts == {NoHost, "node.example"}
Paths == {"/api/user", "/healthz"}
Peers == {"10.0.0.5"}

\* 1024 * 64, the literal of ServiceBundle::call
BodyCap == 65536

\* The bodies a client sends: the JSON document they carry and their length
\* in bytes.  The long ones are an eth_call padded to the cap and one past it.
Bodies ==
    { [doc |-> "", len |-> 0],
      [doc |-> "eth_sendTransaction", len |-> 40],
      [doc |-> "eth_call", len |-> 30],
      [doc |-> "eth_call", len |-> BodyCap],
      [doc |-> "eth_call", len |-> BodyCap + 1] }

\* a body sent with transfer-encoding chunked: its length is not announced
ChunkedBodies == { [doc |-> "eth_call", len |-> 30] }

\* chunked = TRUE: transfer-encoding chunked, otherwise content-length
Requests ==
    [method : Methods, host : Hosts, path : Paths, body : Bodies, chunked : {FALSE}]
        \cup [method : Methods, host : Hosts, path : Paths, body : ChunkedBodies,
              chunked : {TRUE}]

Some(n) == [some |-> TRUE, v |-> n]
None == [some |-> FALSE, v |-> 0]

\* hyper's Incoming::size_hint().upper(): the content length when the
\* request announces one, otherwise unknown
size_hint_upper(req) == IF req.chunked THEN None ELSE Some(req.body.len)

\* header parts as the filters and the middleware see them; extra collects
\* the header lines middleware inserted, in insertion order
Parts(req) == [method |-> req.method, host |-> req.host, path |-> req.path, extra |-> <<>>]

---------------------------------------------------------------------------
(* src/src/filter.rs *)

Method(m) == [kind |-> "Method", arg |-> {m}]
\* a regex is modelled by the set of strings of the universe it matches
Host(matches) == [kind |-> "Host", arg |-> matches]
Path(matches) == [kind |-> "Path", arg |-> matches]
BlackList(ips) == [kind |-> "BlackList", arg |-> ips]
WhiteList(ips) == [kind |-> "WhiteList", arg |-> ips]
CustomFunction(f) == [kind |-> "CustomFunction", arg |-> {f}]

\* the custom predicates of the model
custom_fn(f, from, header) ==
    IF "always_true" \in f THEN "Ok_true"
    ELSE IF "never" \in f THEN "Ok_false"
    ELSE "Err"

OkBool(b) == IF b THEN "Ok_true" ELSE "Ok_false"

\* mutant: a host filter answers false for a request without a host
Filter_filter_host_false(f, from, header) ==
    CASE f.kind = "Method" -> OkBool(header.method \in f.arg)
      [] f.kind = "Host" -> OkBool(header.host # NoHost /\ header.host \in f.arg)
      [] f.kind = "Path" -> OkBool(header.path \in f.arg)
      [] f.kind = "BlackList" -> OkBool(from \notin f.arg)
      [] f.kind = "WhiteList" -> OkBool(from \in f.arg)
      [] f.kind = "CustomFunction" -> custom_fn(f.arg, from, header)

\* Filter::filter
Filter_filter(f, from, header) ==
    CASE f.kind = "Method" -> OkBool(header.method \in f.arg)
      [] f.kind = "Host" ->
            IF header.host = NoHost THEN "Err" ELSE OkBool(header.host \in f.arg)
      [] f.kind = "Path" -> OkBool(header.path \in f.arg)
      [] f.kind = "BlackList" -> OkBool(from \notin f.arg)
      [] f.kind = "WhiteList" -> OkBool(from \in f.arg)
      [] f.kind = "CustomFunction" -> custom_fn(f.arg, from, header)

InternalFullBody(f) == [kind |-> "InternalFullBody", func |-> f]
InternalIncoming(f) == [kind |-> "InternalIncoming", func |-> f]
ExternalBodyFilter == [kind |-> "External", func |-> ""]

\* the body filter closure of main.rs: parse the JSON, reject the
\* transaction-sending methods and documents without a method
no_send_transaction(body) ==
    IF body.doc \notin {"eth_sendTransaction", "eth_sendRawTransaction", "eth_call", "no_method"}
    THEN "Err"
    ELSE IF body.doc # "eth_call" THEN "Ok_false"
    ELSE "Ok_true"

\* BodyFilter::filter
BodyFilter_filter(f, from, body) ==
    CASE f.kind = "InternalFullBody" ->
            IF f.func = "no_send_transaction" THEN no_send_transaction(body) ELSE "Ok_true"
      [] f.kind = "External" -> "Panic"
      [] f.kind = "InternalIncoming" -> "Err"

---------------------------------------------------------------------------
(* src/broxy-core/src/middleware.rs *)

Internal(f) == [kind |-> "Internal", func |-> f]
InternalWithBody(f) == [kind |-> "InternalWithBody", func |-> f]
ExternalStep == [kind |-> "External", func |-> ""]

needs_body(step) == step.kind = "InternalWithBody"

NoMiddleware ==
    [present |-> FALSE, process_incoming |-> <<>>, process_out |-> <<>>,
     incoming_needs_body |-> FALSE, out_needs_body |-> FALSE]

\* mutant: the constructor computes the flags but stores empty step lists
Middleware_new_drop_steps(incoming, outgoing) ==
    [present |-> TRUE,
     process_incoming |-> <<>>,
     process_out |-> <<>>,
     incoming_needs_body |-> ~(\A i \in 1..Len(incoming) : ~needs_body(incoming[i])),
     out_needs_body |-> ~(\A i \in 1..Len(outgoing) : ~needs_body(outgoing[i]))]

\* Middleware::new
Middleware_new(incoming, outgoing) ==
    [present |-> TRUE,
     process_incoming |-> incoming,
     process_out |-> outgoing,
     incoming_needs_body |-> ~(\A i \in 1..Len(incoming) : ~needs_body(incoming[i])),
     out_needs_body |-> ~(\A i \in 1..Len(outgoing) : ~needs_body(outgoing[i]))]

\* the result of running a pipeline: Ok or Err, with the header parts and
\* the body as the steps left them
MwState(res, header, body) == [res |-> res, header |-> header, body |-> body]

\* a line of a header map
HeaderLine(name, value) == [name |-> name, value |-> value]

\* the step functions of the model, by name: "fail" returns an error,
\* "rewrite_body" replaces the body, any other inserts a header line whose
\* value is the number of lines inserted before it
incoming_fn(func, from, st, with_body) ==
    IF func = "fail" THEN MwState("Err", st.header, st.body)
    ELSE MwState("Ok",
                 [st.header EXCEPT !.extra =
                     Append(@, HeaderLine(func, ToString(Len(st.header.extra))))],
                 IF with_body THEN [st.body EXCEPT !.doc = "rewritten"] ELSE st.body)

\* mutant: a step that takes the body is called although none was supplied
incoming_process_without_body(step, from, st, has_body) ==
    CASE step.kind = "External" -> MwState("Panic", st.header, st.body)
      [] step.kind = "InternalWithBody" -> incoming_fn(step.func, from, st, TRUE)
      [] step.kind = "Internal" -> incoming_fn(step.func, from, st, FALSE)

\* MiddlewareIncomingFunction::process
incoming_process(step, from, st, has_body) ==
    CASE step.kind = "External" -> MwState("Panic", st.header, st.body)
      [] step.kind = "InternalWithBody" ->
            IF has_body THEN incoming_fn(step.func, from, st, TRUE)
            ELSE MwState("Err", st.header, st.body)
      [] step.kind = "Internal" -> incoming_fn(step.func, from, st, FALSE)

\* the outgoing step functions: "x_backend" is the closure of main.rs, which
\* writes the peer and the upstream address it is given into two headers
outgoing_fn(func, from, upstream_addr, st, with_body) ==
    CASE func = "fail" -> MwState("Err", st.header, st.body)
      [] func = "x_backend" ->
            MwState("Ok",
                    [st.header EXCEPT !.extra =
                        Append(Append(@, HeaderLine("X-Provided-For", from)),
                               HeaderLine("X-backend", ToString(upstream_addr)))],
                    st.body)
      [] OTHER ->
            MwState("Ok",
                    [st.header EXCEPT !.extra =
                        Append(@, HeaderLine(func, ToString(Len(st.header.extra))))],
                    IF with_body THEN [st.body EXCEPT !.doc = "rewritten"] ELSE st.body)

\* mutant: a step that takes the body runs without one
outgoing_process_without_body(step, from, upstream_addr, st, has_body) ==
    CASE step.kind = "External" -> MwState("Panic", st.header, st.body)
      [] step.kind = "InternalWithBody" ->
            outgoing_fn(step.func, from, upstream_addr, st, has_body)
      [] step.kind = "Internal" -> outgoing_fn(step.func, from, upstream_addr, st, FALSE)

\* MiddlewareOutgoingFunction::process
outgoing_process(step, from, upstream_addr, st, has_body) ==
    CASE step.kind = "External" -> MwState("Panic", st.header, st.body)
      [] step.kind = "InternalWithBody" ->
            IF has_body THEN outgoing_fn(step.func, from, upstream_addr, st, TRUE)
            ELSE MwState("Err", st.header, st.body)
      [] step.kind = "Internal" -> outgoing_fn(step.func, from, upstream_addr, st, FALSE)

\* mutant: the result of a step is dropped, the loop goes on
RECURSIVE incoming_loop_ignore(_, _, _, _, _)
incoming_loop_ignore(steps, i, from, st, has_body) ==
    IF i > Len(steps) THEN st
    ELSE LET nx == incoming_process(steps[i], from, st, has_body) IN
         incoming_loop_ignore(steps, i + 1, from, MwState("Ok", nx.header, nx.body), has_body)

\* for proc in &self.process_incoming { proc.process(from, parts, &mut body)?; }
RECURSIVE incoming_loop(_, _, _, _, _)
incoming_loop(steps, i, from, st, has_body) ==
    IF i > Len(steps) THEN st
    ELSE LET nx == incoming_process(steps[i], from, st, has_body) IN
         IF nx.res = "Ok" THEN incoming_loop(steps, i + 1, from, nx, has_body) ELSE nx

\* Middleware::process_incoming
process_incoming(mw, from, header, body, has_body) ==
    incoming_loop(mw.process_incoming, 1, from, MwState("Ok", header, body), has_body)

\* for proc in &self.process_out { proc.process(from, upstream_addr, parts, &mut body)?; }
RECURSIVE outgoing_loop(_, _, _, _, _, _)
outgoing_loop(steps, i, from, upstream_addr, st, has_body) ==
    IF i > Len(steps) THEN st
    ELSE LET nx == outgoing_process(steps[i], from, upstream_addr, st, has_body) IN
         IF nx.res = "Ok" THEN outgoing_loop(steps, i + 1, from, upstream_addr, nx, has_body)
         ELSE nx

\* Middleware::process_outgoing
process_outgoing(mw, from, upstream_addr, header, body, has_body) ==
    outgoing_loop(mw.process_out, 1, from, upstream_addr, MwState("Ok", header, body), has_body)

---------------------------------------------------------------------------
(* src/src/service.rs: Service *)

\* Service::new, lines 98-101: the local needs_body
service_needs_body(body_filters, middleware) ==
    Len(body_filters) > 0 \/ (middleware.present /\ middleware.incoming_needs_body)

\* Service::new, lines 114-122: the function stored in _process
select_process(body_filters, middleware) ==
    IF middleware.present
    THEN IF service_needs_body(body_filters, middleware)
         THEN "process_with_body"
         ELSE "process_without_body_with_middleware"
    ELSE "process_without_body_without_middleware"

\* mutant: 5 filters are already evaluated in parallel
select_filter_from_five(filters) ==
    IF Len(filters) >= 5 THEN "filter_parallel_header" ELSE "filter_sequential_header"

\* Service::new, lines 126-130: the function stored in _filter
select_filter(filters) ==
    IF Len(filters) > 5 THEN "filter_parallel_header" ELSE "filter_sequential_header"

\* Service::new
Service_new(filters, body_filters, middleware, load_balancer, not_found_body_response) ==
    [filters |-> filters,
     body_filters |-> body_filters,
     middleware |-> middleware,
     load_balancer |-> load_balancer,
     not_found_body_response |-> not_found_body_response,
     process |-> select_process(body_filters, middleware),
     filter |-> select_filter(filters)]

\* mutant: a filter that answers false does not end the loop
RECURSIVE filter_sequential_header_no_stop(_, _, _, _)
filter_sequential_header_no_stop(service, from, header, i) ==
    IF i > Len(service.filters) THEN "Ok_true"
    ELSE LET r == Filter_filter(service.filters[i], from, header)
             rest == filter_sequential_header_no_stop(service, from, header, i + 1) IN
         CASE r = "Ok_true" -> rest
           [] r = "Ok_false" -> IF rest = "Err" THEN "Err" ELSE "Ok_false"
           [] OTHER -> r

\* mutant: an empty filter list matches nothing
RECURSIVE filter_sequential_header_nonempty(_, _, _, _)
filter_sequential_header_nonempty(service, from, header, i) ==
    IF Len(service.filters) = 0 THEN "Ok_false"
    ELSE IF i > Len(service.filters) THEN "Ok_true"
    ELSE LET r == Filter_filter(service.filters[i], from, header) IN
         IF r = "Ok_true" THEN filter_sequential_header_nonempty(service, from, header, i + 1)
         ELSE r

\* Service::filter_sequential_header
RECURSIVE filter_sequential_header(_, _, _, _)
filter_sequential_header(service, from, header, i) ==
    IF i > Len(service.filters) THEN "Ok_true"
    ELSE LET r == Filter_filter(service.filters[i], from, header) IN
         IF r = "Ok_true" THEN filter_sequential_header(service, from, header, i + 1)
         ELSE r

\* mutant: the error of a filter is returned to the caller
filter_parallel_header_propagate(service, from, header) ==
    IF \E i \in 1..Len(service.filters) :
            Filter_filter(service.filters[i], from, header) = "Err"
    THEN "Err"
    ELSE OkBool(\A i \in 1..Len(service.filters) :
                    Filter_filter(service.filters[i], from, header) = "Ok_true")

\* mutant: the header matches as soon as one filter returned Ok(true)
filter_parallel_header_any(service, from, header) ==
    OkBool(\/ Len(service.filters) = 0
           \/ \E i \in 1..Len(service.filters) :
                  Filter_filter(service.filters[i], from, header) = "Ok_true")

\* Service::filter_parallel_header: find_map_any looks for a filter that
\* returned false or failed; the result is Ok(none found)
filter_parallel_header(service, from, header) ==
    OkBool(~ \E i \in 1..Len(service.filters) :
                Filter_filter(service.filters[i], from, header) # "Ok_true")

\* Service::filter_request_by_header: calls the stored _filter
filter_request_by_header(service, from, header) ==
    IF service.filter = "filter_parallel_header"
    THEN filter_parallel_header(service, from, header)
    ELSE filter_sequential_header(service, from, header, 1)

\* Service::filter_request_by_body
RECURSIVE filter_request_by_body(_, _, _, _)
filter_request_by_body(body_filters, from, body, i) ==
    IF i > Len(body_filters) THEN "Ok_true"
    ELSE LET r == BodyFilter_filter(body_filters[i], from, body) IN
         IF r = "Ok_true" THEN filter_request_by_body(body_filters, from, body, i + 1)
         ELSE r

---------------------------------------------------------------------------
(* Responses and the per-request trace *)

EmptyBody == [doc |-> "", len |-> 0]

\* a response built by the proxy itself: empty body, the given status
StatusResponse(status) ==
    [kind |-> "response", status |-> status, extra |-> <<>>, body |-> EmptyBody, hook |-> FALSE]

NOT_FOUND == 404
FORBIDDEN == 403
PAYLOAD_TOO_LARGE == 413
INTERNAL_SERVER_ERROR == 500

\* what the configured not_found_body_response() hook returns
HookResponse ==
    [kind |-> "response", status |-> NOT_FOUND, extra |-> <<HeaderLine("from_hook", "1")>>,
     body |-> [doc |-> "hook_body", len |-> 9], hook |-> TRUE]

\* the future resolved to Err(anyhow::Error): no HTTP response is produced
TransportError ==
    [kind |-> "error", status |-> 0, extra |-> <<>>, body |-> EmptyBody, hook |-> FALSE]

\* the task panicked inside the request path
TaskPanic ==
    [kind |-> "panic", status |-> 0, extra |-> <<>>, body |-> EmptyBody, hook |-> FALSE]

NoResponse ==
    [kind |-> "none", status |-> 0, extra |-> <<>>, body |-> EmptyBody, hook |-> FALSE]

\* the reply of a backend
UpstreamReply ==
    [kind |-> "response", status |-> 200, extra |-> <<>>,
     body |-> [doc |-> "upstream_reply", len |-> 14], hook |-> FALSE]

\* trace events of one request, in program order
Ev(name, n) == [ev |-> name, n |-> n]

Has(trace, name) == \E i \in 1..Len(trace) : trace[i].ev = name
Count(trace, name) == Cardinality({i \in 1..Len(trace) : trace[i].ev = name})

---------------------------------------------------------------------------
(* src/src/service.rs: ServiceBundle::call and the Service::process futures *)

NoUpstream == [address |-> 0, use_ssl |-> FALSE]
NoRequest == [method |-> "", host |-> NoHost, path |-> "", body |-> EmptyBody, chunked |-> FALSE]
NoSent == [sent |-> FALSE, header |-> Parts(NoRequest),
           body |-> EmptyBody, streamed |-> FALSE, to |-> 0]

\* a connection task between requests
IdleConn(from) ==
    [pc |-> "idle", from |-> from, req |-> NoRequest, svc |-> 0, upstream |-> NoUpstream,
     header |-> Parts(NoRequest),
     body |-> EmptyBody, sent |-> NoSent, resp |-> NoResponse, trace |-> <<>>]

\* mutant: the services tried from the last to the first
RECURSIVE route_reverse(_, _, _, _)
route_reverse(i, from, header, trace) ==
    IF i > Len(services) THEN [kind |-> "no_match", svc |-> 0, trace |-> trace]
    ELSE LET k == Len(services) + 1 - i
             r == filter_request_by_header(services[k], from, header)
             tr == Append(trace, Ev("filter_request_by_header", k)) IN
         CASE r = "Ok_false" -> route_reverse(i + 1, from, header, tr)
           [] r = "Ok_true" -> [kind |-> "matched", svc |-> k, trace |-> tr]
           [] r = "Err" -> [kind |-> "error", svc |-> k, trace |-> tr]

\* mutant: the last service acts as a default when none matches
RECURSIVE route_fallback(_, _, _, _)
route_fallback(i, from, header, trace) ==
    IF i > Len(services) THEN [kind |-> "matched", svc |-> Len(services), trace |-> trace]
    ELSE LET r == filter_request_by_header(services[i], from, header)
             tr == Append(trace, Ev("filter_request_by_header", i)) IN
         CASE r = "Ok_false" -> route_fallback(i + 1, from, header, tr)
           [] r = "Ok_true" -> [kind |-> "matched", svc |-> i, trace |-> tr]
           [] r = "Err" -> [kind |-> "error", svc |-> i, trace |-> tr]

\* mutant: a filter error skips the service instead of ending the loop
RECURSIVE route_skip_errors(_, _, _, _)
route_skip_errors(i, from, header, trace) ==
    IF i > Len(services) THEN [kind |-> "no_match", svc |-> 0, trace |-> trace]
    ELSE LET r == filter_request_by_header(services[i], from, header)
             tr == Append(trace, Ev("filter_request_by_header", i)) IN
         CASE r = "Ok_true" -> [kind |-> "matched", svc |-> i, trace |-> tr]
           [] OTHER -> route_skip_errors(i + 1, from, header, tr)

\* ServiceBundle::call, lines 796-819: the loop over the services up to the
\* first match or the first filter error
RECURSIVE route(_, _, _, _)
route(i, from, header, trace) ==
    IF i > Len(services) THEN [kind |-> "no_match", svc |-> 0, trace |-> trace]
    ELSE LET r == filter_request_by_header(services[i], from, header)
             tr == Append(trace, Ev("filter_request_by_header", i)) IN
         CASE r = "Ok_false" -> route(i + 1, from, header, tr)
           [] r = "Ok_true" -> [kind |-> "matched", svc |-> i, trace |-> tr]
           [] r = "Err" -> [kind |-> "error", svc |-> i, trace |-> tr]

\* mutant: the cap compared with >=
over_cap_inclusive(hint) == IF hint.some THEN hint.v >= BodyCap ELSE TRUE

\* lines 821-824: body.size_hint().upper().unwrap_or(u64::MAX) > 1024 * 64
over_cap(hint) == IF hint.some THEN hint.v > BodyCap ELSE TRUE

\* the request ends: the future resolves to a response (the connection goes
\* on serving), resolves to an error (hyper closes the connection), or the
\* task panics
Finish(cn, resp, trace) ==
    [cn EXCEPT !.pc = CASE resp.kind = "panic" -> "dead"
                        [] resp.kind = "error" -> "closed"
                        [] OTHER -> "done",
               !.resp = resp, !.trace = trace]

\* error!("..."); return Err(e.into()): the failure is logged and the future
\* resolves to an error
ReturnErr(cn, trace, what) == Finish(cn, TransportError, Append(trace, Ev(what, 0)))

\* mutant: an error of the incoming middleware is logged and the request
\* is forwarded all the same
start_process_forward_on_error(cn, service, trace) ==
    CASE service.process = "process_without_body_without_middleware" ->
            [cn EXCEPT !.pc = "connect", !.trace = trace]
      [] service.process = "process_without_body_with_middleware" ->
            LET m == process_incoming(service.middleware, cn.from, cn.header, cn.body, FALSE)
                tr == Append(trace, Ev("process_incoming", 0)) IN
            (CASE m.res = "Panic" -> Finish(cn, TaskPanic, tr)
               [] OTHER -> [cn EXCEPT !.pc = "connect", !.header = m.header, !.trace = tr])
      [] service.process = "process_with_body" ->
            IF Len(service.body_filters) = 0
            THEN Finish(cn, TaskPanic, Append(trace, Ev("get_body_filters_raw", 0)))
            ELSE [cn EXCEPT !.pc = "collect", !.trace = trace]

\* the synchronous part of the function stored in _process, run by
\* Service::process inside ServiceBundle::call
start_process(cn, service, trace) ==
    CASE service.process = "process_without_body_without_middleware" ->
            [cn EXCEPT !.pc = "connect", !.trace = trace]
      [] service.process = "process_without_body_with_middleware" ->
            LET m == process_incoming(service.middleware, cn.from, cn.header, cn.body, FALSE)
                tr == Append(trace, Ev("process_incoming", 0)) IN
            (CASE m.res = "Err" -> Finish(cn, StatusResponse(INTERNAL_SERVER_ERROR), tr)
               [] m.res = "Panic" -> Finish(cn, TaskPanic, tr)
               [] m.res = "Ok" -> [cn EXCEPT !.pc = "connect", !.header = m.header,
                                             !.trace = tr])
      [] service.process = "process_with_body" ->
            \* get_body_filters_raw: .get(0).expect(..)
            IF Len(service.body_filters) = 0
            THEN Finish(cn, TaskPanic, Append(trace, Ev("get_body_filters_raw", 0)))
            ELSE [cn EXCEPT !.pc = "collect", !.trace = trace]

\* mutant: the upstream is picked before the size of the body is checked
ServiceBundle_call_pick_first(c, req) ==
    /\ panicked = "none"
    /\ conn[c].pc = "idle"
    /\ nreq' = nreq + 1
    /\ LET from == conn[c].from
           header == Parts(req)
           cn == [IdleConn(from) EXCEPT !.req = req, !.header = header, !.body = req.body]
           r == route(1, from, header, <<>>) IN
         CASE r.kind = "no_match" ->
                /\ conn' = [conn EXCEPT ![c] = Finish(cn, StatusResponse(NOT_FOUND), r.trace)]
                /\ lbs' = lbs
           [] r.kind = "error" ->
                /\ conn' = [conn EXCEPT ![c] =
                               Finish(cn, StatusResponse(INTERNAL_SERVER_ERROR), r.trace)]
                /\ lbs' = lbs
           [] r.kind = "matched" ->
                LET service == services[r.svc]
                    tr1 == Append(r.trace, Ev("size_hint", r.svc)) IN
                IF over_cap(size_hint_upper(req))
                THEN /\ conn' = [conn EXCEPT ![c] =
                                    Finish([cn EXCEPT !.svc = r.svc],
                                           StatusResponse(PAYLOAD_TOO_LARGE), tr1)]
                     /\ lbs' = [lbs EXCEPT ![service.load_balancer].current_index =
                                    fetch_add(@).next]
                ELSE LET id == service.load_balancer
                         fa == fetch_add(lbs[id].current_index)
                         index == get_index(fa.prev, Len(lbs[id].servers))
                         tr2 == Append(Append(tr1, Ev("get_upstream", index)),
                                       Ev(service.process, r.svc)) IN
                     /\ lbs' = [lbs EXCEPT ![id].current_index = fa.next]
                     /\ \E u \in get_unchecked(lbs[id].servers, index) :
                           conn' = [conn EXCEPT ![c] =
                                      start_process([cn EXCEPT !.svc = r.svc, !.upstream = u],
                                                    service, tr2)]
    /\ UNCHANGED <<thr, picks, overlap, panicked, services, run, server>>

\* mutant: the size of the body is checked before the header filters are run
ServiceBundle_call_cap_first(c, req) ==
    /\ panicked = "none"
    /\ conn[c].pc = "idle"
    /\ nreq' = nreq + 1
    /\ LET from == conn[c].from
           header == Parts(req)
           cn == [IdleConn(from) EXCEPT !.req = req, !.header = header, !.body = req.body]
           r == route(1, from, header, <<>>) IN
         CASE over_cap(size_hint_upper(req)) ->
                /\ conn' = [conn EXCEPT ![c] =
                               Finish(cn, StatusResponse(PAYLOAD_TOO_LARGE),
                                      <<Ev("size_hint", 0)>>)]
                /\ lbs' = lbs
           [] r.kind = "no_match" ->
                /\ conn' = [conn EXCEPT ![c] = Finish(cn, StatusResponse(NOT_FOUND), r.trace)]
                /\ lbs' = lbs
           [] r.kind = "error" ->
                /\ conn' = [conn EXCEPT ![c] =
                               Finish(cn, StatusResponse(INTERNAL_SERVER_ERROR), r.trace)]
                /\ lbs' = lbs
           [] r.kind = "matched" ->
                LET service == services[r.svc]
                    tr1 == Append(r.trace, Ev("size_hint", r.svc)) IN
                IF over_cap(size_hint_upper(req))
                THEN /\ conn' = [conn EXCEPT ![c] =
                                    Finish([cn EXCEPT !.svc = r.svc],
                                           StatusResponse(PAYLOAD_TOO_LARGE), tr1)]
                     /\ lbs' = lbs
                ELSE LET id == service.load_balancer
                         fa == fetch_add(lbs[id].current_index)
                         index == get_index(fa.prev, Len(lbs[id].servers))
                         tr2 == Append(Append(tr1, Ev("get_upstream", index)),
                                       Ev(service.process, r.svc)) IN
                     /\ lbs' = [lbs EXCEPT ![id].current_index = fa.next]
                     /\ \E u \in get_unchecked(lbs[id].servers, index) :
                           conn' = [conn EXCEPT ![c] =
                                      start_process([cn EXCEPT !.svc = r.svc, !.upstream = u],
                                                    service, tr2)]
    /\ UNCHANGED <<thr, picks, overlap, panicked, services, run, server>>

\* ServiceBundle::call for one request of connection c
ServiceBundle_call(c, req) ==
    /\ panicked = "none"
    /\ conn[c].pc = "idle"
    /\ nreq' = nreq + 1
    /\ LET from == conn[c].from
           header == Parts(req)
           cn == [IdleConn(from) EXCEPT !.req = req, !.header = header, !.body = req.body]
           r == route(1, from, header, <<>>) IN
         CASE r.kind = "no_match" ->
                /\ conn' = [conn EXCEPT ![c] = Finish(cn, StatusResponse(NOT_FOUND), r.trace)]
                /\ lbs' = lbs
           [] r.kind = "error" ->
                /\ conn' = [conn EXCEPT ![c] =
                               Finish(cn, StatusResponse(INTERNAL_SERVER_ERROR), r.trace)]
                /\ lbs' = lbs
           [] r.kind = "matched" ->
                LET service == services[r.svc]
                    tr1 == Append(r.trace, Ev("size_hint", r.svc)) IN
                IF over_cap(size_hint_upper(req))
                THEN /\ conn' = [conn EXCEPT ![c] =
                                    Finish([cn EXCEPT !.svc = r.svc],
                                           StatusResponse(PAYLOAD_TOO_LARGE), tr1)]
                     /\ lbs' = lbs
                ELSE LET id == service.load_balancer
                         fa == fetch_add(lbs[id].current_index)
                         index == get_index(fa.prev, Len(lbs[id].servers))
                         tr2 == Append(Append(tr1, Ev("get_upstream", index)),
                                       Ev(service.process, r.svc)) IN
                     /\ lbs' = [lbs EXCEPT ![id].current_index = fa.next]
                     /\ \E u \in get_unchecked(lbs[id].servers, index) :
                           conn' = [conn EXCEPT ![c] =
                                      start_process([cn EXCEPT !.svc = r.svc, !.upstream = u],
                                                    service, tr2)]
    /\ UNCHANGED <<thr, picks, overlap, panicked, services, run, server>>

\* a request arrives on connection c of Spec
Call(c, req) ==
    /\ nreq < MaxRequests
    /\ ServiceBundle_call(c, req)

\* mutant: the hook also answers a body filter that returned an error
CollectBody_hook_on_error(c, ok) ==
    /\ conn[c].pc = "collect"
    /\ LET cn == conn[c]
           service == services[cn.svc]
           tr == Append(cn.trace, Ev("collect_body", cn.body.len)) IN
         IF ~ok
         THEN conn' = [conn EXCEPT ![c] = ReturnErr(cn, tr, "collect_body_failed")]
         ELSE LET r == filter_request_by_body(service.body_filters, cn.from, cn.body, 1)
                  tr2 == Append(tr, Ev("filter_request_by_body", 0)) IN
              CASE r = "Panic" -> conn' = [conn EXCEPT ![c] = Finish(cn, TaskPanic, tr2)]
                [] r \in {"Ok_false", "Err"} ->
                     conn' = [conn EXCEPT ![c] =
                                 IF service.not_found_body_response
                                 THEN Finish(cn, HookResponse,
                                             Append(tr2, Ev("not_found_body_response", 0)))
                                 ELSE Finish(cn, StatusResponse(FORBIDDEN), tr2)]
                [] r = "Ok_true" ->
                     conn' = [conn EXCEPT ![c] = [cn EXCEPT !.pc = "connect", !.trace = tr2]]
    /\ UNCHANGED <<lbs, thr, picks, overlap, panicked, services, nreq, run, server>>

\* process_with_body, lines 596-623: body.collect().await, then the body filters
CollectBody(c, ok) ==
    /\ conn[c].pc = "collect"
    /\ LET cn == conn[c]
           service == services[cn.svc]
           tr == Append(cn.trace, Ev("collect_body", cn.body.len)) IN
         IF ~ok
         THEN conn' = [conn EXCEPT ![c] = ReturnErr(cn, tr, "collect_body_failed")]
         ELSE LET r == filter_request_by_body(service.body_filters, cn.from, cn.body, 1)
                  tr2 == Append(tr, Ev("filter_request_by_body", 0)) IN
              CASE r = "Err" ->
                     conn' = [conn EXCEPT ![c] = ReturnErr(cn, tr2, "body_filter_failed")]
                [] r = "Panic" -> conn' = [conn EXCEPT ![c] = Finish(cn, TaskPanic, tr2)]
                [] r = "Ok_false" ->
                     conn' = [conn EXCEPT ![c] =
                                 IF service.not_found_body_response
                                 THEN Finish(cn, HookResponse,
                                             Append(tr2, Ev("not_found_body_response", 0)))
                                 ELSE Finish(cn, StatusResponse(FORBIDDEN), tr2)]
                [] r = "Ok_true" ->
                     conn' = [conn EXCEPT ![c] = [cn EXCEPT !.pc = "connect", !.trace = tr2]]
    /\ UNCHANGED <<lbs, thr, picks, overlap, panicked, services, nreq, run, server>>

\* mutant: a connection kept from an earlier request is reused, none is opened
Connect_pooled(c, ok) ==
    /\ conn[c].pc = "connect"
    /\ conn' = [conn EXCEPT ![c].pc = "handshake"]
    /\ UNCHANGED <<lbs, thr, picks, overlap, panicked, services, nreq, run, server>>

\* TcpStream::connect(upstream.address).await
Connect(c, ok) ==
    /\ conn[c].pc = "connect"
    /\ LET cn == conn[c]
           tr == Append(cn.trace, Ev("connect", cn.upstream.address)) IN
         conn' = [conn EXCEPT ![c] =
                     IF ok
                     THEN [cn EXCEPT !.pc = "handshake",
                                     !.trace = Append(tr, Ev("connected", cn.upstream.address))]
                     ELSE ReturnErr(cn, tr, "connect_failed")]
    /\ UNCHANGED <<lbs, thr, picks, overlap, panicked, services, nreq, run, server>>

\* Builder::handshake(io).await; in process_with_body the incoming
\* middleware runs right after it (lines 662-674)
Handshake(c, ok) ==
    /\ conn[c].pc = "handshake"
    /\ LET cn == conn[c]
           service == services[cn.svc]
           tr == Append(cn.trace, Ev("handshake", cn.upstream.address)) IN
         conn' = [conn EXCEPT ![c] =
            IF ~ok THEN ReturnErr(cn, tr, "handshake_failed")
            ELSE IF service.process = "process_with_body"
            THEN LET m == process_incoming(service.middleware, cn.from, cn.header, cn.body, TRUE)
                     tr2 == Append(tr, Ev("process_incoming", 1)) IN
                 (CASE m.res = "Err" -> Finish(cn, StatusResponse(INTERNAL_SERVER_ERROR), tr2)
                    [] m.res = "Panic" -> Finish(cn, TaskPanic, tr2)
                    [] m.res = "Ok" -> [cn EXCEPT !.pc = "send", !.header = m.header,
                                                  !.body = m.body, !.trace = tr2])
            ELSE [cn EXCEPT !.pc = "send", !.trace = tr]]
    /\ UNCHANGED <<lbs, thr, picks, overlap, panicked, services, nreq, run, server>>

\* mutant: an error of the outgoing middleware is returned as the error of
\* the service future
outgoing_error_propagates(cn, service, reply, has_body, trace) ==
    LET m == process_outgoing(service.middleware, cn.from, NoUpstream.address,
                              [extra |-> reply.extra], reply.body, has_body)
        tr == Append(trace, Ev("process_outgoing", IF has_body THEN 1 ELSE 0)) IN
    CASE m.res = "Err" -> ReturnErr(cn, tr, "process_outgoing_failed")
      [] m.res = "Panic" -> Finish(cn, TaskPanic, tr)
      [] m.res = "Ok" -> Finish(cn, [reply EXCEPT !.extra = m.header.extra, !.body = m.body], tr)

\* the response of process_*: outgoing middleware applied to the reply.
\* The call sites are middleware.process_outgoing(&from, &mut header, body)
\* (lines 552 and 704): the upstream picked for the request is not among the
\* arguments, so the steps are not given its address
outgoing(cn, service, reply, has_body, trace) ==
    LET m == process_outgoing(service.middleware, cn.from, NoUpstream.address,
                              [extra |-> reply.extra], reply.body, has_body)
        tr == Append(trace, Ev("process_outgoing", IF has_body THEN 1 ELSE 0)) IN
    CASE m.res = "Err" -> Finish(cn, StatusResponse(INTERNAL_SERVER_ERROR), tr)
      [] m.res = "Panic" -> Finish(cn, TaskPanic, tr)
      [] m.res = "Ok" -> Finish(cn, [reply EXCEPT !.extra = m.header.extra, !.body = m.body], tr)

\* mutant: the body is always collected and sent as a Full body
from_parts_full(cn, buffered) ==
    [sent |-> TRUE, header |-> cn.header, body |-> cn.body, streamed |-> FALSE,
     to |-> cn.upstream.address]

\* Request::from_parts(header, body): the request handed to the upstream
\* sender, with the Incoming stream of the client (lines 465, 537) or with
\* the collected bytes as a Full body (line 676)
from_parts(cn, buffered) ==
    [sent |-> TRUE, header |-> cn.header, body |-> cn.body, streamed |-> ~buffered,
     to |-> cn.upstream.address]

\* sender.send_request(request).await
SendRequest(c, ok) ==
    /\ conn[c].pc = "send"
    /\ LET cn0 == conn[c]
           service == services[cn0.svc]
           buffered == service.process = "process_with_body"
           tr == Append(cn0.trace, Ev("send_request", cn0.upstream.address))
           cn == [cn0 EXCEPT !.sent = from_parts(cn0, buffered)] IN
         conn' = [conn EXCEPT ![c] =
            IF ~ok THEN ReturnErr(cn, tr, "send_request_failed")
            ELSE CASE service.process = "process_without_body_without_middleware" ->
                        Finish(cn, UpstreamReply, tr)
                   [] service.process = "process_without_body_with_middleware" ->
                        outgoing(cn, service, UpstreamReply, FALSE, tr)
                   [] service.process = "process_with_body" ->
                        [cn EXCEPT !.pc = "collect_response", !.trace = tr]]
    /\ UNCHANGED <<lbs, thr, picks, overlap, panicked, services, nreq, run, server>>

\* process_with_body, lines 691-724: collect the response body, outgoing middleware
CollectResponse(c, ok) ==
    /\ conn[c].pc = "collect_response"
    /\ LET cn == conn[c]
           service == services[cn.svc]
           tr == Append(cn.trace, Ev("collect_response", 0)) IN
         conn' = [conn EXCEPT ![c] =
            IF ~ok THEN ReturnErr(cn, tr, "collect_response_failed")
            ELSE outgoing(cn, service, UpstreamReply, TRUE, tr)]
    /\ UNCHANGED <<lbs, thr, picks, overlap, panicked, services, nreq, run, server>>

---------------------------------------------------------------------------
(* src/broxy-core/src/server.rs, ServiceBundle::new, and run_server of     *)
(* src/src/main.rs.  A connection task of SpecServer is conn[c] for c in   *)
(* 1..Len(conn); server.tasks[c] holds what was moved into the task.       *)

\* the remote addresses of the clients; each of them connects at most once
RemoteAddrs == {"10.0.0.5", "10.0.0.6"}

\* the requests the clients of SpecServer send
ServerRequests ==
    { [method |-> m, host |-> "node.example", path |-> "/api/user",
       body |-> [doc |-> "eth_call", len |-> 30], chunked |-> FALSE] : m \in {"POST", "GET"} }

\* the address ServiceBundle::new puts in from
UnsetPeer == "0.0.0.0:1"

\* ServiceBundle::new(&services): the raw pointer to the slice (the variable
\* services) and the placeholder peer
ServiceBundle_new == [services |-> "&services", from |-> UnsetPeer]

\* no Server was constructed (Spec, SpecLB, SpecEval)
NoServer ==
    [listening |-> FALSE, tls_acceptor |-> FALSE, _accept |-> "none",
     services |-> ServiceBundle_new, loop |-> "none", accepts |-> <<>>, tasks |-> <<>>]

\* Server::new, followed by run_server entering its loop.  accepts is the
\* history of the outcomes of self.connection.accept()
Server_new(bundle, tls_acceptor) ==
    [listening |-> TRUE, tls_acceptor |-> tls_acceptor,
     _accept |-> IF tls_acceptor THEN "_tls_acceptor" ELSE "_non_tls_acceptor",
     services |-> bundle, loop |-> "accepting", accepts |-> <<>>, tasks |-> <<>>]

\* mutant: the clone keeps the placeholder peer
accept_bundle_unset(own, address) == own

\* Server::accept, lines 105-106: bundle = self.services.clone(); bundle.from = address
accept_bundle(own, address) == [own EXCEPT !.from = address]

\* what the acceptor moves into the task it spawns: the bundle and the
\* stream; handshake and written are history (the outcome of the TLS
\* handshake, the responses written to the client)
Task(bundle, io) == [bundle |-> bundle, io |-> io, handshake |-> "none", written |-> <<>>]

\* _non_tls_acceptor: the spawned task serves the TcpStream at once
non_tls_acceptor(bundle) ==
    [task |-> Task(bundle, "TcpStream"), cn |-> IdleConn(bundle.from)]

\* _tls_acceptor: the spawned task first awaits acceptor.accept(conn)
tls_acceptor(bundle) ==
    [task |-> Task(bundle, "pending"), cn |-> [IdleConn(bundle.from) EXCEPT !.pc = "tls_accept"]]

\* mutant: an accept error ends run_server
after_accept_propagate(outcome) == IF outcome = "Err" THEN "returned" ELSE "accepting"

\* run_server: both arms of the match log and fall through to the next
\* iteration of the loop
after_accept(outcome) == "accepting"

\* Server::accept returned Ok: a connection from address was accepted, the
\* bundle cloned and the task spawned; nothing is awaited after the accept
Accept(address) ==
    /\ panicked = "none"
    /\ server.listening
    /\ server.loop = "accepting"
    /\ Len(server.accepts) < MaxAccepts
    /\ \A k \in 1..Len(server.accepts) : server.accepts[k].address # address
    /\ LET bundle == accept_bundle(server.services, address)
           sp == IF server._accept = "_tls_acceptor"
                 THEN tls_acceptor(bundle) ELSE non_tls_acceptor(bundle) IN
         /\ conn' = Append(conn, sp.cn)
         /\ server' = [server EXCEPT
                          !.tasks = Append(@, sp.task),
                          !.accepts = Append(@, [res |-> "Ok", address |-> address,
                                                 task |-> Len(conn) + 1]),
                          !.loop = after_accept("Ok")]
    /\ UNCHANGED <<lbs, thr, picks, overlap, panicked, services, nreq, run>>

\* self.connection.accept().await? returned the error; run_server logs it
AcceptErr ==
    /\ panicked = "none"
    /\ server.listening
    /\ server.loop = "accepting"
    /\ Len(server.accepts) < MaxAccepts
    /\ server' = [server EXCEPT
                     !.accepts = Append(@, [res |-> "Err", address |-> "", task |-> 0]),
                     !.loop = after_accept("Err")]
    /\ UNCHANGED <<lbs, thr, picks, overlap, panicked, services, conn, nreq, run>>

\* mutant: a failed handshake is logged and the connection served all the same
tls_handshake_serve_anyway(ok) ==
    [pc |-> "idle", io |-> IF ok THEN "TlsStream" ELSE "TcpStream"]

\* _tls_acceptor, lines 76-85: Ok gives the stream serve_connection runs
\* on, Err logs and returns from the task, dropping the connection
tls_handshake(ok) ==
    IF ok THEN [pc |-> "idle", io |-> "TlsStream"]
    ELSE [pc |-> "tls_failed", io |-> "dropped"]

\* acceptor.accept(conn).await of the task of connection c completes
TlsAccept(c, ok) ==
    /\ conn[c].pc = "tls_accept"
    /\ conn' = [conn EXCEPT ![c].pc = tls_handshake(ok).pc]
    /\ server' = [server EXCEPT
                     !.tasks[c].io = tls_handshake(ok).io,
                     !.tasks[c].handshake = IF ok THEN "ok" ELSE "failed"]
    /\ UNCHANGED <<lbs, thr, picks, overlap, panicked, services, nreq, run>>

\* a request arrives on connection c of SpecServer: serve_connection calls
\* the bundle moved into the task
Serve(c, req) ==
    /\ nreq < MaxServed
    /\ ServiceBundle_call(c, req)

\* the response written on connection c, appended to the history of its task
logged(srv, c, cn) ==
    IF c \in DOMAIN srv.tasks
    THEN [srv EXCEPT !.tasks[c].written =
             Append(@, [status |-> cn.resp.status,
                        outgoing |-> Has(cn.trace, "process_outgoing")])]
    ELSE srv

\* serve_connection wrote the response to the client; the connection is
\* kept alive and waits for its next request
ResponseSent(c) ==
    /\ conn[c].pc = "done"
    /\ conn' = [conn EXCEPT ![c] = IdleConn(conn[c].from)]
    /\ server' = logged(server, c, conn[c])
    /\ UNCHANGED <<lbs, thr, picks, overlap, panicked, services, nreq, run>>

---------------------------------------------------------------------------
(* A middleware pipeline or the header filters of a service called         *)
(* directly, the way a unit test calls them: Middleware::process_incoming, *)
(* Middleware::process_outgoing and Service::filter_request_by_header.     *)
(* The header filters are evaluated one Filter::filter call per step, so   *)
(* that which filters ran, and in which order, is part of the state.       *)

NoRun ==
    [pc |-> "idle", op |-> "none", steps |-> <<>>, has_body |-> FALSE,
     mw |-> NoMiddleware,
     from |-> "", header |-> Parts(NoRequest), evaluated |-> <<>>, found |-> FALSE,
     result |-> "none", out |-> MwState("none", Parts(NoRequest), EmptyBody)]

\* the request and the response the pipelines are applied to
EvalRequest ==
    [method |-> "POST", host |-> "node.example", path |-> "/api/user",
     body |-> [doc |-> "eth_call", len |-> 30], chunked |-> FALSE]

\* Middleware::new(steps, vec![]) followed by process_incoming(from, parts, body)
CallProcessIncoming(steps, from, has_body) ==
    /\ run.pc = "idle"
    /\ run' = [NoRun EXCEPT
                 !.pc = "returned", !.op = "process_incoming",
                 !.steps = steps, !.mw = Middleware_new(steps, <<>>),
                 !.has_body = has_body, !.from = from,
                 !.out = process_incoming(Middleware_new(steps, <<>>), from,
                                          Parts(EvalRequest), EvalRequest.body, has_body)]
    /\ UNCHANGED <<lbs, thr, picks, overlap, panicked, services, conn, nreq, server>>

\* Middleware::new(vec![], steps) followed by
\* process_outgoing(from, upstream_addr, parts, body)
CallProcessOutgoing(steps, from, upstream, has_body) ==
    /\ run.pc = "idle"
    /\ run' = [NoRun EXCEPT
                 !.pc = "returned", !.op = "process_outgoing",
                 !.steps = steps, !.mw = Middleware_new(<<>>, steps),
                 !.has_body = has_body, !.from = from,
                 !.out = process_outgoing(Middleware_new(<<>>, steps), from, upstream.address,
                                          [extra |-> UpstreamReply.extra], UpstreamReply.body,
                                          has_body)]
    /\ UNCHANGED <<lbs, thr, picks, overlap, panicked, services, conn, nreq, server>>

\* the External variant of a body filter or of a middleware step invoked
\* directly: BodyFilter::filter, MiddlewareIncomingFunction::process,
\* MiddlewareOutgoingFunction::process
ExternalCalls == {"BodyFilter::External", "MiddlewareIncomingFunction::External",
                  "MiddlewareOutgoingFunction::External"}

CallExternal(what, from, has_body) ==
    /\ run.pc = "idle"
    /\ what \in ExternalCalls
    /\ LET st == MwState("Ok", Parts(EvalRequest), EvalRequest.body)
           out == CASE what = "BodyFilter::External" ->
                         MwState(BodyFilter_filter(ExternalBodyFilter, from, EvalRequest.body),
                                 st.header, st.body)
                    [] what = "MiddlewareIncomingFunction::External" ->
                         incoming_process(ExternalStep, from, st, has_body)
                    [] what = "MiddlewareOutgoingFunction::External" ->
                         outgoing_process(ExternalStep, from, Upstream(2).address, st, has_body) IN
         run' = [NoRun EXCEPT !.pc = "returned", !.op = what, !.has_body = has_body,
                              !.from = from, !.out = out]
    /\ UNCHANGED <<lbs, thr, picks, overlap, panicked, services, conn, nreq, server>>

\* Service::new(filters, ..) placed first in a bundle, followed by a service
\* without filters; filter_request_by_header(from, header) is entered
FilterStart(filters, from, req) ==
    /\ run.pc = "idle"
    /\ services' = << Service_new(filters, <<>>, NoMiddleware, "lb1", FALSE),
                      Service_new(<<>>, <<>>, NoMiddleware, "lb2", FALSE) >>
    /\ run' = [NoRun EXCEPT !.pc = "running", !.op = services'[1].filter,
                            !.from = from, !.header = Parts(req)]
    /\ UNCHANGED <<lbs, thr, picks, overlap, panicked, conn, nreq, server>>

\* filter_sequential_header: one iteration of the for loop, or the return
\* after the last filter
SequentialStep ==
    /\ run.pc = "running"
    /\ run.op = "filter_sequential_header"
    /\ LET i == Len(run.evaluated) + 1 IN
         IF i > Len(services[1].filters)
         THEN run' = [run EXCEPT !.pc = "returned", !.result = "Ok_true"]
         ELSE LET r == Filter_filter(services[1].filters[i], run.from, run.header) IN
              run' = [run EXCEPT !.evaluated = Append(@, i),
                                 !.pc = IF r = "Ok_true" THEN "running" ELSE "returned",
                                 !.result = IF r = "Ok_true" THEN "none" ELSE r]
    /\ UNCHANGED <<lbs, thr, picks, overlap, panicked, services, conn, nreq, server>>

\* filter_parallel_header: a rayon worker evaluates the closure of
\* find_map_any on a filter no worker has taken yet; Ok(false) and Err both
\* give Some(())
ParallelStep(i) ==
    /\ run.pc = "running"
    /\ run.op = "filter_parallel_header"
    /\ i \in 1..Len(services[1].filters)
    /\ \A k \in 1..Len(run.evaluated) : run.evaluated[k] # i
    /\ LET r == Filter_filter(services[1].filters[i], run.from, run.header) IN
         run' = [run EXCEPT !.evaluated = Append(@, i),
                            !.found = @ \/ r # "Ok_true"]
    /\ UNCHANGED <<lbs, thr, picks, overlap, panicked, services, conn, nreq, server>>

\* find_map_any returns once a worker found Some(()) or every filter was
\* evaluated; .is_none() gives the result, always Ok
ParallelReturn ==
    /\ run.pc = "running"
    /\ run.op = "filter_parallel_header"
    /\ run.found \/ Len(run.evaluated) = Len(services[1].filters)
    /\ run' = [run EXCEPT !.pc = "returned", !.result = OkBool(~run.found)]
    /\ UNCHANGED <<lbs, thr, picks, overlap, panicked, services, conn, nreq, server>>

---------------------------------------------------------------------------
(* The configurations Spec starts from: what main.rs builds, varied *)

\* more than 5 filters: evaluated by filter_parallel_header
ParallelFilters ==
    <<Method("POST"), Path({"/api/user"}), Host({"node.example"}),
      BlackList({}), WhiteList(Peers), CustomFunction("always_true")>>

FilterLists ==
    { <<>>,
      <<Method("POST")>>,
      <<Path({"/api/user"})>>,
      <<Method("POST"), Host({"node.example"})>>,
      ParallelFilters }

BodyFilterLists == { <<>>, <<InternalFullBody("no_send_transaction")>> }

\* the middleware of main.rs: no incoming step, one outgoing header step
MainMiddleware == Middleware_new(<<>>, <<Internal("x_backend")>>)

\* no middleware, that of main.rs, one whose incoming step rewrites the
\* body, one with a header-only incoming step, and two whose incoming
\* pipeline fails (after a header step, and in a step that takes the body)
Middlewares ==
    { NoMiddleware,
      MainMiddleware,
      Middleware_new(<<InternalWithBody("rewrite_body")>>, <<>>),
      Middleware_new(<<Internal("x_real_ip")>>, <<Internal("x_backend")>>),
      Middleware_new(<<Internal("x_real_ip"), Internal("fail")>>, <<>>),
      Middleware_new(<<InternalWithBody("fail")>>, <<>>) }

\* body filters, middleware and hook of a service; the hook is only looked
\* at when a body filter rejects, so it is varied where body filters exist
Profiles ==
    { [bf |-> bf, mw |-> mw, hook |-> hook] :
        bf \in BodyFilterLists, mw \in Middlewares, hook \in BOOLEAN }
      \ { [bf |-> <<>>, mw |-> mw, hook |-> TRUE] : mw \in Middlewares }

\* the second service of a bundle varies over three of the profiles: no
\* body filters and no middleware, body filters alone, and what main.rs builds
SecondProfiles ==
    { p \in Profiles :
        /\ ~p.hook
        /\ \/ p.mw = NoMiddleware
           \/ (p.bf # <<>> /\ p.mw = MainMiddleware) }

\* the services of the model bound to load balancer id
ServicesFor(id, profiles) ==
    { Service_new(f, p.bf, p.mw, id, p.hook) : f \in FilterLists, p \in profiles }

\* bundles of one service, and of two services with a load balancer each
Bundles ==
    { <<s1>> : s1 \in ServicesFor("lb1", Profiles) }
        \cup { <<s1, s2>> : s1 \in ServicesFor("lb1", Profiles),
                            s2 \in ServicesFor("lb2", SecondProfiles) }

Init ==
    /\ lbs = [id \in LbIds |->
                 LoadBalancer_new(IF id = "lb1" THEN ServerList(MaxServers) ELSE ServerList(2))]
    /\ thr = [t \in Threads |-> IdleThread]
    /\ picks = [id \in LbIds |-> <<>>]
    /\ overlap = FALSE
    /\ panicked = "none"
    /\ services \in Bundles
    /\ conn \in [Conns -> {IdleConn(p) : p \in Peers}]
    /\ nreq = 0
    /\ run = NoRun
    /\ server = NoServer

Next ==
    \/ \E c \in Conns, req \in Requests : Call(c, req)
    \/ \E c \in Conns, ok \in BOOLEAN : CollectBody(c, ok)
    \/ \E c \in Conns, ok \in BOOLEAN : Connect(c, ok)
    \/ \E c \in Conns, ok \in BOOLEAN : Handshake(c, ok)
    \/ \E c \in Conns, ok \in BOOLEAN : SendRequest(c, ok)
    \/ \E c \in Conns, ok \in BOOLEAN : CollectResponse(c, ok)
    \/ \E c \in Conns : ResponseSent(c)

Spec == Init /\ [][Next]_vars

\* the load balancer exercised directly by threads, as in the tests of load_balancer.rs
InitLB ==
    /\ lbs = [id \in LbIds |-> NoLb]
    /\ thr = [t \in Threads |-> IdleThread]
    /\ picks = [id \in LbIds |-> <<>>]
    /\ overlap = FALSE
    /\ panicked = "none"
    /\ services = <<>>
    /\ conn = [c \in Conns |-> IdleConn("10.0.0.5")]
    /\ nreq = 0
    /\ run = NoRun
    /\ server = NoServer

NextLB ==
    \/ \E id \in LbIds, srv \in ServerLists : LbNew(id, srv)
    \/ \E t \in Threads, id \in LbIds : GetUpstreamFetch(t, id)
    \/ \E t \in Threads : GetUpstreamReturn(t)

SpecLB == InitLB /\ [][NextLB]_vars

\* the pipelines and filter lists handed to the direct calls
StepPool == {Internal("a"), Internal("b"), Internal("fail"), InternalWithBody("c")}

RECURSIVE SeqsUpTo(_, _)
SeqsUpTo(S, n) ==
    IF n = 0 THEN {<<>>}
    ELSE SeqsUpTo(S, n - 1)
            \cup {Append(q, x) : q \in {r \in SeqsUpTo(S, n - 1) : Len(r) = n - 1}, x \in S}

StepLists == SeqsUpTo(StepPool, MaxSteps)

\* the filter lists of the bundles, lists with a predicate that fails or
\* answers false, and a parallel list whose last filter fails
EvalFilterLists ==
    FilterLists
        \cup { <<Method("POST"), CustomFunction("boom"), Path({"/api/user"})>>,
               <<CustomFunction("never"), CustomFunction("boom")>>,
               <<Host({"node.example"}), Method("POST"), Path({"/api/user"}),
                 WhiteList(Peers), CustomFunction("always_true")>>,
               [ParallelFilters EXCEPT ![6] = CustomFunction("boom")] }

InitEval ==
    /\ lbs = [id \in LbIds |-> NoLb]
    /\ thr = [t \in Threads |-> IdleThread]
    /\ picks = [id \in LbIds |-> <<>>]
    /\ overlap = FALSE
    /\ panicked = "none"
    /\ services = <<>>
    /\ conn = [c \in Conns |-> IdleConn("10.0.0.5")]
    /\ nreq = 0
    /\ run = NoRun
    /\ server = NoServer

NextEval ==
    \/ \E steps \in StepLists, from \in Peers, has_body \in BOOLEAN :
          CallProcessIncoming(steps, from, has_body)
    \/ \E steps \in StepLists, from \in Peers, u \in {Upstream(2)}, has_body \in BOOLEAN :
          CallProcessOutgoing(steps, from, u, has_body)
    \/ \E what \in ExternalCalls, from \in Peers, has_body \in BOOLEAN :
          CallExternal(what, from, has_body)
    \/ \E filters \in EvalFilterLists, from \in Peers, req \in Requests :
          FilterStart(filters, from, req)
    \/ SequentialStep
    \/ \E i \in 1..Len(ParallelFilters) : ParallelStep(i)
    \/ ParallelReturn

SpecEval == InitEval /\ [][NextEval]_vars

\* the services of SpecServer: what main.rs configures, two services whose
\* outgoing pipeline fails, on the header-only and on the buffered path, and
\* one whose only step that takes a body is an outgoing one
MainService ==
    Service_new(<<Method("POST")>>, <<InternalFullBody("no_send_transaction")>>,
                MainMiddleware, "lb1", FALSE)

ServerBundles ==
    { <<MainService>>,
      <<Service_new(<<>>, <<>>, Middleware_new(<<>>, <<Internal("fail")>>), "lb1", FALSE)>>,
      <<Service_new(<<>>, <<InternalFullBody("no_send_transaction")>>,
                    Middleware_new(<<>>, <<InternalWithBody("fail")>>), "lb1", FALSE)>>,
      <<Service_new(<<>>, <<>>,
                    Middleware_new(<<>>, <<InternalWithBody("rewrite_body")>>), "lb1", FALSE)>> }

InitServer ==
    /\ lbs = [id \in LbIds |->
                 LoadBalancer_new(IF id = "lb1" THEN ServerList(MaxServers) ELSE ServerList(2))]
    /\ thr = [t \in Threads |-> IdleThread]
    /\ picks = [id \in LbIds |-> <<>>]
    /\ overlap = FALSE
    /\ panicked = "none"
    /\ services \in ServerBundles
    /\ conn = <<>>
    /\ nreq = 0
    /\ run = NoRun
    /\ server \in {Server_new(ServiceBundle_new, tls) : tls \in BOOLEAN}

\* one iteration of the loop of run_server
AcceptLoop ==
    \/ \E address \in RemoteAddrs : Accept(address)
    \/ AcceptErr

NextServer ==
    \/ AcceptLoop
    \/ \E c \in DOMAIN conn, ok \in BOOLEAN : TlsAccept(c, ok)
    \/ \E c \in DOMAIN conn, req \in ServerRequests : Serve(c, req)
    \/ \E c \in DOMAIN conn, ok \in BOOLEAN : CollectBody(c, ok)
    \/ \E c \in DOMAIN conn, ok \in BOOLEAN : Connect(c, ok)
    \/ \E c \in DOMAIN conn, ok \in BOOLEAN : Handshake(c, ok)
    \/ \E c \in DOMAIN conn, ok \in BOOLEAN : SendRequest(c, ok)
    \/ \E c \in DOMAIN conn, ok \in BOOLEAN : CollectResponse(c, ok)
    \/ \E c \in DOMAIN conn : ResponseSent(c)

\* the accept loop is a task of its own: the runtime resumes it whenever the
\* listener has an outcome, whatever the connection tasks are doing
SpecServer == InitServer /\ [][NextServer]_vars /\ WF_vars(AcceptLoop)

---------------------------------------------------------------------------
(* Properties of ServiceBundle dispatch, checked under Spec *)

ProcessFns ==
    {"process_with_body", "process_without_body_with_middleware",
     "process_without_body_without_middleware"}

Routed(cn) == cn.pc # "idle"
Finished(cn) == cn.pc \in {"done", "closed", "dead"}

\* what the header filters of service i answer for the request of cn
Match(i, cn) == filter_request_by_header(services[i], cn.from, Parts(cn.req))

IsFilterEv(e) == e.ev = "filter_request_by_header"
IsProcessEv(e) == e.ev \in ProcessFns

\* the services whose header filters were run, and those whose process was
\* invoked, in program order
Tried(cn) == SelectSeq(cn.trace, IsFilterEv)
Dispatched(cn) == SelectSeq(cn.trace, IsProcessEv)

\* the lowest-index service that matches, all earlier ones answering false
FirstMatch(i, cn) ==
    /\ Match(i, cn) = "Ok_true"
    /\ \A j \in 1..(i - 1) : Match(j, cn) = "Ok_false"

\* the request was handed to a service: it matched and passed the size cap
Admitted(i, cn) == FirstMatch(i, cn) /\ ~over_cap(size_hint_upper(cn.req))

\* C1: services are tried in declaration order and the request is
\* dispatched to the lowest-index service whose header filters all pass,
\* even when a later service would also match; at most one service's
\* process is invoked per request.
C1_FirstMatchRouting ==
    \A c \in Conns :
        LET cn == conn[c] IN
        Routed(cn) =>
            /\ \A k \in 1..Len(Tried(cn)) : Tried(cn)[k].n = k
            /\ Len(Dispatched(cn)) <= 1
            /\ \A k \in 1..Len(Dispatched(cn)) : FirstMatch(Dispatched(cn)[k].n, cn)
            /\ \A i \in 1..Len(services) :
                  Admitted(i, cn) =>
                      Len(Dispatched(cn)) = 1 /\ Dispatched(cn)[1].n = i /\ cn.svc = i

\* both services of the bundle match; the first one got the request and
\* it was forwarded to an upstream of the first service's load balancer
C1_Witness ==
    \E c \in Conns :
        LET cn == conn[c] IN
        /\ Len(services) = 2
        /\ cn.req.method = "GET" /\ cn.req.path = "/api/user"
        /\ services[1].filters = <<Path({"/api/user"})>>
        /\ Match(1, cn) = "Ok_true" /\ Match(2, cn) = "Ok_true"
        /\ Len(Dispatched(cn)) = 1 /\ Dispatched(cn)[1].n = 1
        /\ cn.sent.sent /\ cn.sent.to = lbs["lb1"].servers[1].address
        /\ cn.resp.status = 200

\* what a rejecting body filter must produce for the service
RejectResponse(service) ==
    IF service.not_found_body_response THEN HookResponse ELSE StatusResponse(FORBIDDEN)

\* C2: for every service that has at least one body filter, with or
\* without middleware, a matched request whose body makes a body filter
\* return false is answered with not_found_body_response() if configured
\* and with 403 Forbidden otherwise, and no upstream connection is opened.
C2_BodyFilterRejection ==
    \A c \in Conns : \A i \in 1..Len(services) :
        LET cn == conn[c] IN
        ( /\ Routed(cn)
          /\ Admitted(i, cn)
          /\ Len(services[i].body_filters) > 0
          /\ filter_request_by_body(services[i].body_filters, cn.from, cn.req.body, 1)
                = "Ok_false" )
        => /\ ~Has(cn.trace, "connected")
           /\ (Finished(cn) /\ cn.resp.kind = "response") => cn.resp = RejectResponse(services[i])

\* C3: the dispatch path follows needs_body: a service with needs_body =
\* true buffers the body before anything is forwarded, a service with
\* needs_body = false streams it.
C3_PathFollowsNeedsBody ==
    \A c \in Conns :
        LET cn == conn[c] IN
        (Routed(cn) /\ cn.svc # 0) =>
            LET service == services[cn.svc]
                needs == service_needs_body(service.body_filters, service.middleware) IN
            /\ \A k \in 1..Len(Dispatched(cn)) :
                  (Dispatched(cn)[k].ev = "process_with_body") <=> needs
            /\ Has(cn.trace, "connected") => (Has(cn.trace, "collect_body") <=> needs)
            /\ cn.sent.sent => (cn.sent.streamed <=> ~needs)

\* size_hint().upper() of the request is known and within the cap
WithinCap(req) == size_hint_upper(req).some /\ size_hint_upper(req).v <= BodyCap

\* C4: for a request that matched a service, an upper bound of at most
\* 65,536 lets the request proceed to Service dispatch; a larger or unknown
\* bound gives 413 Payload Too Large, no upstream connection and no read of
\* the body; for every matched service, whatever its needs_body.
C4_BodySizeCap ==
    \A c \in Conns : \A i \in 1..Len(services) :
        LET cn == conn[c] IN
        (Routed(cn) /\ FirstMatch(i, cn)) =>
            IF WithinCap(cn.req)
            THEN /\ Len(Dispatched(cn)) = 1 /\ Dispatched(cn)[1].n = i
                 /\ cn.resp.status # PAYLOAD_TOO_LARGE
            ELSE /\ cn.pc = "done"
                 /\ cn.resp = StatusResponse(PAYLOAD_TOO_LARGE)
                 /\ Len(Dispatched(cn)) = 0
                 /\ ~Has(cn.trace, "get_upstream")
                 /\ ~Has(cn.trace, "connect")
                 /\ ~Has(cn.trace, "collect_body")
                 /\ ~cn.sent.sent

\* a body of exactly 65,536 bytes was accepted by a service that buffers
\* bodies and went on to the upstream
C4_Witness ==
    \E c \in Conns :
        LET cn == conn[c] IN
        /\ cn.svc # 0
        /\ ~cn.req.chunked /\ cn.req.body.len = BodyCap
        /\ services[cn.svc].process = "process_with_body"
        /\ Has(cn.trace, "collect_body")
        /\ cn.sent.sent

\* C5: when no service of the bundle matches (every header filter chain
\* answered false without error) the response is 404 Not Found, no
\* service's process runs and no upstream connection is opened.
C5_NoMatch ==
    \A c \in Conns :
        LET cn == conn[c] IN
        (Routed(cn) /\ \A i \in 1..Len(services) : Match(i, cn) = "Ok_false") =>
            /\ cn.pc = "done"
            /\ cn.resp = StatusResponse(NOT_FOUND)
            /\ cn.svc = 0
            /\ Len(Dispatched(cn)) = 0
            /\ ~Has(cn.trace, "get_upstream")
            /\ ~Has(cn.trace, "connect")

\* GET /healthz against a bundle whose only service filters on the path
C5_Witness ==
    \E c \in Conns :
        LET cn == conn[c] IN
        /\ Len(services) = 1
        /\ services[1].filters = <<Path({"/api/user"})>>
        /\ cn.req.method = "GET" /\ cn.req.path = "/healthz"
        /\ cn.resp.status = NOT_FOUND
        /\ Len(Tried(cn)) = 1

\* C6: when the header filters of the service being tried return an
\* error, the response is 500 Internal Server Error at once and no later
\* service is tried, even if a later service would match.
C6_HeaderFilterError ==
    \A c \in Conns : \A i \in 1..Len(services) :
        LET cn == conn[c] IN
        ( /\ Routed(cn)
          /\ Match(i, cn) = "Err"
          /\ \A j \in 1..(i - 1) : Match(j, cn) = "Ok_false" )
        => /\ cn.pc = "done"
           /\ cn.resp = StatusResponse(INTERNAL_SERVER_ERROR)
           /\ Len(Tried(cn)) = i
           /\ Len(Dispatched(cn)) = 0
           /\ ~Has(cn.trace, "connect")

\* the first service fails on the missing host, the second one would match
C6_Witness ==
    \E c \in Conns :
        LET cn == conn[c] IN
        /\ Len(services) = 2
        /\ Routed(cn)
        /\ Match(1, cn) = "Err"
        /\ Match(2, cn) = "Ok_true"
        /\ cn.resp.status = INTERNAL_SERVER_ERROR
        /\ Len(Tried(cn)) = 1

\* the sequential service i is reached by the request of cn and its filter
\* k, a host filter, is evaluated: the earlier services answered false and
\* the earlier filters of service i answered true
HostFilterReached(i, k, cn) ==
    /\ services[i].filter = "filter_sequential_header"
    /\ services[i].filters[k].kind = "Host"
    /\ \A j \in 1..(i - 1) : Match(j, cn) = "Ok_false"
    /\ \A m \in 1..(k - 1) :
          Filter_filter(services[i].filters[m], cn.from, Parts(cn.req)) = "Ok_true"

\* C30: a host filter applied to a request without a host fails with an
\* error, it does not answer false; in a sequential service reached by the
\* bundle the request is answered 500 and is dispatched to no service.
C30_HostFilterNoHost ==
    \A c \in Conns : \A i \in 1..Len(services) : \A k \in 1..Len(services[i].filters) :
        LET cn == conn[c] IN
        (Routed(cn) /\ cn.req.host = NoHost /\ HostFilterReached(i, k, cn)) =>
            /\ Filter_filter(services[i].filters[k], cn.from, Parts(cn.req)) = "Err"
            /\ cn.pc = "done"
            /\ cn.resp = StatusResponse(INTERNAL_SERVER_ERROR)
            /\ Len(Tried(cn)) = i
            /\ Len(Dispatched(cn)) = 0

\* a POST without a host passed the method filter of the first service and
\* failed on its host filter
C30_Witness ==
    \E c \in Conns :
        LET cn == conn[c] IN
        /\ Routed(cn)
        /\ cn.req.host = NoHost
        /\ Len(services[1].filters) = 2
        /\ HostFilterReached(1, 2, cn)
        /\ cn.resp.status = INTERNAL_SERVER_ERROR
        /\ cn.trace = <<Ev("filter_request_by_header", 1)>>

---------------------------------------------------------------------------
(* Properties of the Service::process futures, checked under Spec *)

UpstreamFailures ==
    {"connect_failed", "handshake_failed", "send_request_failed", "collect_response_failed"}

\* an upstream connect, handshake, send or receive of the request failed
UpstreamFailed(cn) == \E i \in 1..Len(cn.trace) : cn.trace[i].ev \in UpstreamFailures

\* C11: when connecting to the selected upstream fails, when the HTTP
\* client handshake fails, or when sending the request or receiving the
\* response fails, the client receives a 502 Bad Gateway response.
C11_UpstreamFailure502 ==
    \A c \in Conns :
        LET cn == conn[c] IN
        (Finished(cn) /\ UpstreamFailed(cn)) =>
            cn.resp.kind = "response" /\ cn.resp.status = 502

\* C12: for every service built by Service::new (also one whose needs_body
\* comes from the incoming middleware alone, with no body filter) and every
\* request, dispatch never reaches a panic.
C12_NoPanic ==
    \A c \in Conns : conn[c].pc # "dead" /\ conn[c].resp.kind # "panic"

\* the body could not be collected, or a body filter returned an error
BodyStageFailed(cn) ==
    Has(cn.trace, "collect_body_failed") \/ Has(cn.trace, "body_filter_failed")

\* C13: when a body filter returns an error during dispatch, or the request
\* body cannot be collected, the error is converted into an HTTP response
\* rather than a transport-level error, and no upstream connection is opened.
C13_BodyErrorsBecomeResponses ==
    \A c \in Conns :
        LET cn == conn[c] IN
        (Finished(cn) /\ BodyStageFailed(cn)) =>
            /\ cn.resp.kind = "response"
            /\ ~Has(cn.trace, "connect")

\* the service that got the request of cn
Svc(cn) == services[cn.svc]

NeedsBody(service) == service_needs_body(service.body_filters, service.middleware)

\* C14: when the matched service has needs_body = false the request body
\* is not buffered and the upstream sender gets exactly the body the client
\* sent; incoming header-only middleware does not alter the body.
C14_StreamingPassThrough ==
    \A c \in Conns :
        LET cn == conn[c] IN
        (Routed(cn) /\ cn.svc # 0 /\ ~NeedsBody(Svc(cn))) =>
            /\ ~Has(cn.trace, "collect_body")
            /\ cn.sent.sent => (cn.sent.streamed /\ cn.sent.body = cn.req.body)

\* a request with a body went through a header-only incoming step and was
\* streamed to the upstream
C14_Witness ==
    \E c \in Conns :
        LET cn == conn[c] IN
        /\ cn.svc # 0
        /\ Svc(cn).middleware.process_incoming = <<Internal("x_real_ip")>>
        /\ cn.req.body.len > 0
        /\ cn.sent.sent /\ cn.sent.streamed
        /\ Len(cn.sent.header.extra) = 1

\* no filters, no body filters, no middleware
IsPlain(service) ==
    /\ service.filters = <<>>
    /\ service.body_filters = <<>>
    /\ ~service.middleware.present

\* C15: a service with zero filters, zero body filters and no middleware
\* matches every request, forwards the request headers and body unchanged
\* to the picked upstream and returns the upstream's response unchanged.
C15_IdentityRoundTrip ==
    \A c \in Conns :
        LET cn == conn[c] IN
        Routed(cn) =>
            /\ \A i \in 1..Len(services) : IsPlain(services[i]) => Match(i, cn) = "Ok_true"
            /\ (IsPlain(services[1]) /\ ~over_cap(size_hint_upper(cn.req))) => cn.svc = 1
            /\ (cn.svc # 0 /\ IsPlain(Svc(cn))) =>
                  /\ ~Has(cn.trace, "process_incoming")
                  /\ ~Has(cn.trace, "process_outgoing")
                  /\ cn.sent.sent =>
                        /\ cn.sent.header = Parts(cn.req)
                        /\ cn.sent.body = cn.req.body
                        /\ cn.sent.to = cn.upstream.address
                  /\ (cn.sent.sent /\ cn.pc = "done") => cn.resp = UpstreamReply

\* a POST with a body went through a plain service and the reply came back
C15_Witness ==
    \E c \in Conns :
        LET cn == conn[c] IN
        /\ cn.svc = 1 /\ IsPlain(services[1])
        /\ cn.req.method = "POST" /\ cn.req.body.len > 0
        /\ cn.sent.sent /\ cn.pc = "done"
        /\ cn.resp = UpstreamReply

\* what the incoming pipeline of the matched service answers for the
\* request of cn, called as the service's process function calls it
IncomingResult(cn) ==
    process_incoming(Svc(cn).middleware, cn.from, Parts(cn.req), cn.req.body,
                     Svc(cn).process = "process_with_body")

\* C17: when an incoming middleware step returns an error for a matched
\* request, in the streaming or in the buffered-body path, the response is
\* 500 Internal Server Error and no request is sent to any upstream.
C17_IncomingMiddlewareError ==
    \A c \in Conns :
        LET cn == conn[c] IN
        ( /\ cn.svc # 0
          /\ Has(cn.trace, "process_incoming")
          /\ IncomingResult(cn).res = "Err" )
        => /\ cn.pc = "done"
           /\ cn.resp = StatusResponse(INTERNAL_SERVER_ERROR)
           /\ ~cn.sent.sent
           /\ ~Has(cn.trace, "send_request")

\* buffered-body path: the body passed the body filter, the upstream
\* connection was set up, then the incoming step that takes the body failed
C17_Witness ==
    \E c \in Conns :
        LET cn == conn[c] IN
        /\ cn.svc # 0
        /\ Svc(cn).process = "process_with_body"
        /\ Svc(cn).middleware.process_incoming = <<InternalWithBody("fail")>>
        /\ Has(cn.trace, "filter_request_by_body")
        /\ Has(cn.trace, "process_incoming")
        /\ cn.resp.status = INTERNAL_SERVER_ERROR
        /\ ~cn.sent.sent

\* the lines of a header map
Lines(extra) == {extra[i] : i \in 1..Len(extra)}

\* the outgoing pipeline of the service has the step of main.rs, which
\* writes its peer and upstream arguments into X-Provided-For and X-backend
WritesPeerAndUpstream(service) ==
    /\ service.middleware.present
    /\ \E i \in 1..Len(service.middleware.process_out) :
          service.middleware.process_out[i] = Internal("x_backend")

\* C18: for every forwarded request each outgoing middleware step is
\* invoked with the peer address of the connection that sent the request
\* and the address of the upstream picked for that request, so a step that
\* writes peer and upstream into headers yields a response carrying exactly
\* those two values.
C18_OutgoingArguments ==
    \A c \in Conns :
        LET cn == conn[c] IN
        ( /\ cn.svc # 0
          /\ cn.pc = "done"
          /\ Has(cn.trace, "process_outgoing")
          /\ WritesPeerAndUpstream(Svc(cn)) )
        => /\ HeaderLine("X-Provided-For", cn.from) \in Lines(cn.resp.extra)
           /\ HeaderLine("X-backend", ToString(cn.upstream.address)) \in Lines(cn.resp.extra)

\* the position of the first event called name in the trace, Len + 1 if none
Pos(trace, name) ==
    CHOOSE i \in 1..(Len(trace) + 1) :
        /\ i <= Len(trace) => trace[i].ev = name
        /\ \A j \in 1..(i - 1) : trace[j].ev # name

\* C26: on the buffered path the stages run in the order buffering, body
\* filters, incoming middleware, opening the upstream connection, sending:
\* the connection is opened only after the body filters and the incoming
\* middleware both succeeded.
C26_BufferedStageOrder ==
    \A c \in Conns :
        LET cn == conn[c] IN
        (Has(cn.trace, "process_with_body") /\ Has(cn.trace, "connect")) =>
            /\ Pos(cn.trace, "collect_body") < Pos(cn.trace, "filter_request_by_body")
            /\ Pos(cn.trace, "filter_request_by_body") < Pos(cn.trace, "process_incoming")
            /\ Pos(cn.trace, "process_incoming") < Pos(cn.trace, "connect")

\* the upstream answered the request of cn and the service future returned
Answered(cn) ==
    /\ cn.pc = "done"
    /\ Has(cn.trace, "send_request")
    /\ ~Has(cn.trace, "send_request_failed")

\* C27: when needs_body is true the response body is fully buffered and the
\* outgoing middleware is applied to headers and body; otherwise, when a
\* middleware is present, the outgoing middleware is applied to the headers
\* only and the body is streamed; otherwise the response is returned as
\* received.
C27_ResponsePath ==
    \A c \in Conns :
        LET cn == conn[c] IN
        (cn.svc # 0 /\ Answered(cn)) =>
            IF NeedsBody(Svc(cn))
            THEN /\ Has(cn.trace, "collect_response")
                 /\ Svc(cn).middleware.present =>
                        \E i \in 1..Len(cn.trace) : cn.trace[i] = Ev("process_outgoing", 1)
            ELSE IF Svc(cn).middleware.present
            THEN /\ ~Has(cn.trace, "collect_response")
                 /\ \E i \in 1..Len(cn.trace) : cn.trace[i] = Ev("process_outgoing", 0)
            ELSE /\ ~Has(cn.trace, "collect_response")
                 /\ ~Has(cn.trace, "process_outgoing")
                 /\ cn.resp = UpstreamReply

\* the request of cn was answered by the bundle or by a body filter,
\* without reaching the forwarding stage
AnsweredLocally(cn) ==
    \/ Len(Dispatched(cn)) = 0 /\ cn.resp.status \in {NOT_FOUND, PAYLOAD_TOO_LARGE,
                                                      INTERNAL_SERVER_ERROR}
    \/ cn.resp.status = FORBIDDEN
    \/ cn.resp.hook

HookInvoked(cn) == Has(cn.trace, "not_found_body_response") \/ cn.resp.hook

Advanced == {id \in LbIds : lbs'[id] # lbs[id]}

\* connection c received a request in this step
Received(c) == conn[c].pc = "idle" /\ conn'[c].pc # "idle"

\* a step changes no shared state except the counter of at most one load
\* balancer, by one, and only by handing a request that matched and passed
\* the cap to the service of that load balancer
SharedStateFrame ==
    /\ services' = services
    /\ \A id \in LbIds : lbs'[id].servers = lbs[id].servers /\ lbs'[id].built = lbs[id].built
    /\ Cardinality(Advanced) <= 1
    /\ \A id \in Advanced :
          /\ lbs'[id].current_index = (lbs[id].current_index + 1) % UsizeModulus
          /\ \E c \in Conns :
                /\ Received(c)
                /\ conn'[c].svc # 0
                /\ services[conn'[c].svc].load_balancer = id
                /\ Admitted(conn'[c].svc, conn'[c])
    /\ \A c \in Conns :
          Received(c) =>
              /\ (\/ Len(Dispatched(conn'[c])) = 0
                  \/ conn'[c].resp.status = PAYLOAD_TOO_LARGE) => Advanced = {}
              /\ Len(Dispatched(conn'[c])) = 1 =>
                    Advanced = {services[conn'[c].svc].load_balancer}

LastPos(trace, name) ==
    IF Has(trace, name)
    THEN CHOOSE i \in 1..Len(trace) :
            /\ trace[i].ev = name
            /\ \A j \in (i + 1)..Len(trace) : trace[j].ev # name
    ELSE 0

\* C40: for each request the header filters are evaluated before the size
\* cap and the size cap before the load-balancer pick: an oversized or
\* unbounded request that matches no service gets 404, not 413; one whose
\* first erroring service precedes any match gets 500; and a 413 for the
\* first matching service is final, later services are not tried.
C40_CheckPrecedence ==
    \A c \in Conns :
        LET cn == conn[c] IN
        Routed(cn) =>
            /\ Has(cn.trace, "size_hint") =>
                  LastPos(cn.trace, "filter_request_by_header") < Pos(cn.trace, "size_hint")
            /\ Has(cn.trace, "get_upstream") =>
                  /\ Has(cn.trace, "size_hint")
                  /\ Pos(cn.trace, "size_hint") < Pos(cn.trace, "get_upstream")
            /\ (\A i \in 1..Len(services) : Match(i, cn) = "Ok_false") =>
                  cn.resp = StatusResponse(NOT_FOUND) /\ ~Has(cn.trace, "size_hint")
            /\ \A i \in 1..Len(services) :
                  /\ ( /\ Match(i, cn) = "Err"
                       /\ \A j \in 1..(i - 1) : Match(j, cn) = "Ok_false" ) =>
                          /\ cn.resp = StatusResponse(INTERNAL_SERVER_ERROR)
                          /\ ~Has(cn.trace, "size_hint")
                  /\ (FirstMatch(i, cn) /\ over_cap(size_hint_upper(cn.req))) =>
                          /\ cn.resp = StatusResponse(PAYLOAD_TOO_LARGE)
                          /\ Len(Tried(cn)) = i
                          /\ ~Has(cn.trace, "get_upstream")
                          /\ cn.pc = "done"

\* a chunked request, whose size is unbounded, matched no service of a
\* two-service bundle: 404
C40_Witness ==
    \E c \in Conns :
        LET cn == conn[c] IN
        /\ Len(services) = 2
        /\ cn.req.chunked
        /\ over_cap(size_hint_upper(cn.req))
        /\ cn.resp = StatusResponse(NOT_FOUND)
        /\ Len(Tried(cn)) = 2

---------------------------------------------------------------------------
(* Properties of the middleware pipeline and of header matching, checked   *)
(* under SpecEval                                                          *)

\* a step that returns an error: its function fails, or it takes the body
\* and none was supplied
StepFails(step, has_body) ==
    step.func = "fail" \/ (step.kind = "InternalWithBody" /\ ~has_body)

\* the position of the first failing step, Len + 1 when none fails
FirstFailing(steps, has_body) ==
    IF \E i \in 1..Len(steps) : StepFails(steps[i], has_body)
    THEN CHOOSE i \in 1..Len(steps) :
            /\ StepFails(steps[i], has_body)
            /\ \A j \in 1..(i - 1) : ~StepFails(steps[j], has_body)
    ELSE Len(steps) + 1

\* C16: process_incoming and process_outgoing apply the steps handed to
\* Middleware::new strictly in declared order, each step seeing the
\* mutations of the earlier ones; the first step that returns an error ends
\* the pipeline, no later step runs and the error is returned.
C16_MiddlewareOrder ==
    (run.pc = "returned" /\ run.op \in {"process_incoming", "process_outgoing"}) =>
        LET k == FirstFailing(run.steps, run.has_body)
            lines == run.out.header.extra IN
        /\ run.out.res = IF k > Len(run.steps) THEN "Ok" ELSE "Err"
        /\ Len(lines) = k - 1
        /\ \A j \in 1..(k - 1) : lines[j] = HeaderLine(run.steps[j].func, ToString(j - 1))

\* three incoming steps, the second fails: the first was applied, the third was not
C16_Witness ==
    /\ run.pc = "returned"
    /\ run.op = "process_incoming"
    /\ run.steps = <<Internal("a"), Internal("fail"), Internal("b")>>
    /\ run.out.res = "Err"
    /\ run.out.header.extra = <<HeaderLine("a", "0")>>

\* what filter i of the service under evaluation answers
FilterResult(i) == Filter_filter(services[1].filters[i], run.from, run.header)

AllPass == \A i \in 1..Len(services[1].filters) : FilterResult(i) = "Ok_true"

\* the first filter that does not answer Ok(true)
FirstNotTrue ==
    CHOOSE i \in 1..Len(services[1].filters) :
        /\ FilterResult(i) # "Ok_true"
        /\ \A j \in 1..(i - 1) : FilterResult(j) = "Ok_true"

C20_SequentialMatching ==
    (run.op = "filter_sequential_header") =>
        /\ \A k \in 1..Len(run.evaluated) : run.evaluated[k] = k
        /\ \A k \in 1..(Len(run.evaluated) - 1) : FilterResult(k) = "Ok_true"
        /\ run.pc = "returned" =>
              /\ run.result = IF AllPass THEN "Ok_true" ELSE FilterResult(FirstNotTrue)
              /\ Len(run.evaluated) = IF AllPass THEN Len(services[1].filters) ELSE FirstNotTrue
              /\ filter_request_by_header(services[1], run.from, run.header) = run.result

\* the first filter answered false and the failing filter after it was not evaluated
C20_Witness ==
    /\ run.pc = "returned" /\ run.op = "filter_sequential_header"
    /\ services[1].filters = <<CustomFunction("never"), CustomFunction("boom")>>
    /\ run.evaluated = <<1>>
    /\ run.result = "Ok_false"

\* what the mode that was not selected returns for the filters, peer and
\* header of the run
OtherMode ==
    IF run.op = "filter_sequential_header"
    THEN filter_parallel_header(services[1], run.from, run.header)
    ELSE filter_sequential_header(services[1], run.from, run.header, 1)

\* the results of the run and of the other mode, by mode
SequentialResult == IF run.op = "filter_sequential_header" THEN run.result ELSE OtherMode
ParallelResult == IF run.op = "filter_parallel_header" THEN run.result ELSE OtherMode

SomeFilterErrs == \E i \in 1..Len(services[1].filters) : FilterResult(i) = "Err"

HasBodyStep(steps) == \E i \in 1..Len(steps) : steps[i].kind = "InternalWithBody"

\* the steps handed to Middleware::new by the call recorded in run
HandedIncoming == IF run.op = "process_incoming" THEN run.steps ELSE <<>>
HandedOutgoing == IF run.op = "process_outgoing" THEN run.steps ELSE <<>>

\* C21: after construction the middleware's incoming_needs_body flag equals
\* "some stored incoming step is InternalWithBody", out_needs_body equals the
\* same for the stored outgoing steps, and the stored step sequences are
\* exactly the ones handed to the constructor.
C21_MiddlewareFlags ==
    (run.op \in {"process_incoming", "process_outgoing"}) =>
        /\ run.mw.present
        /\ run.mw.incoming_needs_body = HasBodyStep(run.mw.process_incoming)
        /\ run.mw.out_needs_body = HasBodyStep(run.mw.process_out)
        /\ run.mw.process_incoming = HandedIncoming
        /\ run.mw.process_out = HandedOutgoing

C21_Witness ==
    /\ run.op = "process_outgoing"
    /\ Len(run.steps) = 3
    /\ run.steps[2].kind = "InternalWithBody"
    /\ run.mw.out_needs_body
    /\ ~run.mw.incoming_needs_body
    /\ run.mw.process_out = run.steps

\* C29: a service evaluates its header filters in parallel exactly when it
\* has more than 5 of them (5 filters: sequential, 6: parallel); the mode is
\* chosen at construction and is the one a request's evaluation uses.
C29_FilterModeThreshold ==
    (run.op \in {"filter_sequential_header", "filter_parallel_header"}) =>
        LET n == Len(services[1].filters) IN
        /\ services[1].filter = "filter_parallel_header" <=> n > 5
        /\ services[1].filter = "filter_sequential_header" <=> n <= 5
        /\ run.op = services[1].filter
        /\ n <= 5 => \A k \in 1..Len(run.evaluated) : run.evaluated[k] = k

\* a service of exactly 5 filters evaluated them one after the other
C29_Witness ==
    /\ run.op = "filter_sequential_header"
    /\ Len(services[1].filters) = 5
    /\ run.evaluated = <<1, 2, 3, 4, 5>>
    /\ run.pc = "returned"
    /\ run.result = "Ok_true"

\* step k of the pipeline called in run takes the body, none was supplied,
\* and every step before it is a header-only step that succeeds
BodyStepReached(k) ==
    /\ ~run.has_body
    /\ run.steps[k].kind = "InternalWithBody"
    /\ \A j \in 1..(k - 1) : run.steps[j].kind = "Internal" /\ run.steps[j].func # "fail"

\* C31: when an InternalWithBody step, incoming or outgoing, is invoked
\* without a body buffer its function is not called and the pipeline fails
\* with an error; the header-only steps before it have been applied and the
\* steps after it are not run.
C31_BodyRequired ==
    \A k \in 1..Len(run.steps) :
        ( /\ run.pc = "returned"
          /\ run.op \in {"process_incoming", "process_outgoing"}
          /\ BodyStepReached(k) ) =>
            LET lines == run.out.header.extra IN
            /\ run.out.res = "Err"
            /\ Len(lines) = k - 1
            /\ \A j \in 1..(k - 1) : lines[j] = HeaderLine(run.steps[j].func, ToString(j - 1))
            /\ run.out.body.doc # "rewritten"

\* a header step, then a body step without a body, then a header step
C31_Witness ==
    /\ run.pc = "returned"
    /\ run.op = "process_outgoing"
    /\ ~run.has_body
    /\ run.steps = <<Internal("a"), InternalWithBody("c"), Internal("b")>>
    /\ run.out.res = "Err"
    /\ run.out.header.extra = <<HeaderLine("a", "0")>>

\* C32: invoking an External body filter or an External middleware step
\* returns an error value; it does not panic.
C32_ExternalNotImplemented ==
    (run.pc = "returned" /\ run.op \in ExternalCalls) => run.out.res = "Err"

---------------------------------------------------------------------------
(* Properties of the acceptor, the accept loop and the connection tasks,   *)
(* checked under SpecServer                                                *)

\* the outcome of TcpListener::accept that task c was spawned for
AcceptOf(c) == CHOOSE k \in 1..Len(server.accepts) : server.accepts[k].task = c

\* every task holds a clone of the server's bundle whose peer is the remote
\* address of its own connection, and serves with that peer
PeerIsTheRemoteAddress ==
    /\ server.services = ServiceBundle_new
    /\ Len(server.tasks) = Len(conn)
    /\ \A c \in DOMAIN conn :
          /\ \E k \in 1..Len(server.accepts) : server.accepts[k].task = c
          /\ server.tasks[c].bundle.from = server.accepts[AcceptOf(c)].address
          /\ server.tasks[c].bundle.services = server.services.services
          /\ conn[c].from = server.tasks[c].bundle.from

\* a step changes neither the service list, nor the server's own bundle,
\* nor the bundle of a task that exists
BundlesUntouched ==
    /\ services' = services
    /\ server'.services = server.services
    /\ \A c \in DOMAIN conn :
          /\ server'.tasks[c].bundle = server.tasks[c].bundle
          /\ conn'[c].from = conn[c].from

\* C22: the bundle handed to the serving task of every accepted connection
\* has that connection's remote address as peer, set before the task
\* starts; accepting a connection changes neither the server's own bundle
\* nor the bundle of another connection, and all bundles refer to the same
\* unchanged service list.
C22_PeerIsolation == []PeerIsTheRemoteAddress /\ [][BundlesUntouched]_vars

\* two connections from different clients are served at the same time
C22_Witness ==
    /\ Len(conn) = 2
    /\ server.tasks[1].bundle.from = "10.0.0.6"
    /\ server.tasks[2].bundle.from = "10.0.0.5"
    /\ server.services.from = UnsetPeer
    /\ Routed(conn[1])
    /\ conn[1].pc = "connect"
    /\ Routed(conn[2])

\* nothing of connection c reached the bundle, nothing was written to it
NothingDispatched(c) ==
    /\ conn[c].req = NoRequest
    /\ conn[c].trace = <<>>
    /\ server.tasks[c].written = <<>>

\* C23: with TLS configured, a connection whose handshake succeeded is
\* served over the TLS stream with its bundle as handler; a connection
\* whose handshake failed is dropped without any request being dispatched;
\* in both cases the accept loop keeps accepting.
C23_TlsEndpoints ==
    (server._accept = "_tls_acceptor") =>
        /\ server.loop = "accepting"
        /\ \A c \in DOMAIN conn :
              LET task == server.tasks[c] IN
              /\ task.handshake = "none" =>
                    /\ conn[c].pc = "tls_accept"
                    /\ NothingDispatched(c)
              /\ task.handshake = "failed" =>
                    /\ conn[c].pc = "tls_failed"
                    /\ task.io = "dropped"
                    /\ NothingDispatched(c)
              /\ task.handshake = "ok" =>
                    /\ task.io = "TlsStream"
                    /\ conn[c].pc \notin {"tls_accept", "tls_failed"}
                    /\ conn[c].from = task.bundle.from

\* the handshake of the first connection failed; the second connection was
\* accepted, its handshake succeeded and a request of it was dispatched
C23_Witness ==
    /\ server._accept = "_tls_acceptor"
    /\ Len(conn) = 2
    /\ server.tasks[1].handshake = "failed"
    /\ server.tasks[2].handshake = "ok"
    /\ server.tasks[2].io = "TlsStream"
    /\ Len(Dispatched(conn[2])) = 1

\* C24: after every outcome of an accept (a task spawned, or an error) the
\* loop is accepting again and never terminates; it performs every accept
\* the listener has an outcome for, whether or not the spawned tasks ever
\* finish their handshake or their request.
C24_AcceptLoopForever ==
    /\ [](server.listening => server.loop = "accepting")
    /\ <>(Len(server.accepts) = MaxAccepts)

\* an accept failed and the next connection was accepted while the first
\* one was still in its TLS handshake
C24_Witness ==
    /\ Len(server.accepts) = 3
    /\ server.accepts[1].res = "Ok"
    /\ server.accepts[2].res = "Err"
    /\ server.accepts[3].res = "Ok"
    /\ conn[1].pc = "tls_accept"
    /\ server.loop = "accepting"

\* the outgoing middleware of the matched service was applied to the
\* upstream response of cn and returned an error
OutgoingFailed(cn) ==
    /\ cn.svc # 0
    /\ \E i \in 1..Len(cn.trace) :
          /\ cn.trace[i].ev = "process_outgoing"
          /\ process_outgoing(Svc(cn).middleware, cn.from, NoUpstream.address,
                              [extra |-> UpstreamReply.extra], UpstreamReply.body,
                              cn.trace[i].n = 1).res = "Err"

\* C28: when an outgoing middleware step returns an error the client gets
\* 500 with an empty body as a normal response, the upstream response is
\* discarded, and the connection stays open for its next request.
C28_OutgoingMiddlewareError ==
    \A c \in DOMAIN conn :
        /\ OutgoingFailed(conn[c]) =>
              /\ conn[c].pc = "done"
              /\ conn[c].resp = StatusResponse(INTERNAL_SERVER_ERROR)
        /\ LET written == server.tasks[c].written IN
           ( /\ written # <<>>
             /\ written[Len(written)] = [status |-> INTERNAL_SERVER_ERROR, outgoing |-> TRUE]
             /\ conn[c].req = NoRequest ) => conn[c].pc = "idle"

\* a connection got the 500 of a failed outgoing step and its next request
\* was dispatched to the service
C28_Witness ==
    \E c \in DOMAIN conn :
        /\ server.tasks[c].written = <<[status |-> INTERNAL_SERVER_ERROR, outgoing |-> TRUE]>>
        /\ Routed(conn[c])
        /\ Len(Dispatched(conn[c])) = 1
        /\ conn[c].pc = "connect"

\* a service whose middleware has an outgoing step that takes the body and
\* whose needs_body is false
OutgoingBodyUnbuffered(service) ==
    /\ service.middleware.present
    /\ HasBodyStep(service.middleware.process_out)
    /\ ~service_needs_body(service.body_filters, service.middleware)

\* C38: for a service whose middleware has an outgoing InternalWithBody step
\* and whose needs_body is false, a request handed to the service is first
\* forwarded to the upstream and then answered 500, the outgoing pipeline
\* being run with no body: the upstream response never reaches the client.
C38_OutgoingBodyStepUnbuffered ==
    \A c \in DOMAIN conn :
        LET cn == conn[c] IN
        (cn.svc # 0 /\ OutgoingBodyUnbuffered(Svc(cn)) /\ Len(Dispatched(cn)) = 1) =>
            /\ Svc(cn).process = "process_without_body_with_middleware"
            /\ ~Has(cn.trace, "collect_body")
            /\ cn.resp # UpstreamReply
            /\ cn.pc = "done" =>
                  /\ cn.resp = StatusResponse(INTERNAL_SERVER_ERROR)
                  /\ cn.sent.sent /\ cn.sent.streamed
                  /\ Has(cn.trace, "send_request")
                  /\ Has(cn.trace, "process_outgoing")
                  /\ Pos(cn.trace, "send_request") < Pos(cn.trace, "process_outgoing")
                  /\ cn.trace[Pos(cn.trace, "process_outgoing")].n = 0
            /\ Has(cn.trace, "process_outgoing") => cn.pc = "done"

\* the request of a client was streamed to the upstream of such a service
\* and the client got 500
C38_Witness ==
    \E c \in DOMAIN conn :
        LET cn == conn[c] IN
        /\ cn.svc # 0
        /\ OutgoingBodyUnbuffered(Svc(cn))
        /\ Svc(cn).middleware.process_out = <<InternalWithBody("rewrite_body")>>
        /\ cn.sent.sent
        /\ cn.pc = "done"
        /\ cn.resp = StatusResponse(INTERNAL_SERVER_ERROR)

---------------------------------------------------------------------------
(* Properties of the load balancer, checked under SpecLB *)

\* the server at 0-based position i of a constructed load balancer
ServerAt(id, i) == lbs[id].servers[(i % Len(lbs[id].servers)) + 1]

\* how many completed picks of load balancer id returned its k-th server
Selected(id, k) ==
    Cardinality({i \in 1..Len(picks[id]) : picks[id][i].server = lbs[id].servers[k]})

\* C7: starting from a fresh load balancer over s[0..S-1], the i-th
\* sequential pick (i = 0, 1, 2, ...) returns s[i mod S]; stated for the
\* picks made before the machine-word counter wraps.
C7_RoundRobinOrder ==
    ~overlap =>
        \A id \in LbIds : \A i \in 1..Len(picks[id]) :
            i <= UsizeModulus => picks[id][i].server = ServerAt(id, i - 1)

\* the literal scenario: over [A, B, C] five sequential picks give A, B, C, A, B
C7_Witness ==
    /\ ~overlap
    /\ Len(lbs["lb1"].servers) = 3
    /\ Len(picks["lb1"]) = 5
    /\ [i \in 1..5 |-> picks["lb1"][i].server.address]
          = <<FirstPort, FirstPort + 1, FirstPort + 2, FirstPort, FirstPort + 1>>

\* C8: after any N sequential picks against a load balancer with S servers,
\* each server has been selected exactly floor(N/S) or ceil(N/S) times
\* (N counted before the machine-word counter wraps).
C8_EvenDistribution ==
    ~overlap =>
        \A id \in LbIds :
            LET N == Len(picks[id])
                S == Len(lbs[id].servers) IN
            (lbs[id].built /\ N <= UsizeModulus) =>
                \A k \in 1..S :
                    Selected(id, k) \in {N \div S, (N + S - 1) \div S}

\* N = 4 picks over S = 3 servers: the counts are 2, 1, 1
C8_Witness ==
    /\ ~overlap
    /\ Len(lbs["lb1"].servers) = 3
    /\ Len(picks["lb1"]) = 4
    /\ Selected("lb1", 1) = 2
    /\ Selected("lb1", 2) = 1

\* the pre-increment values observed by the callers of load balancer id:
\* those of the completed calls and those held by calls in flight
Observed(id) ==
    {picks[id][i].current : i \in 1..Len(picks[id])}
        \cup {thr[u].current : u \in InFlight(id)}

Calls(id) == Len(picks[id]) + Cardinality(InFlight(id))

\* C9: under any interleaving of concurrent get_upstream calls on the same
\* load balancer each caller observes a distinct counter value and no
\* increment is lost: after n calls the counter has advanced by exactly n.
C9_ConcurrentPicks ==
    \A id \in LbIds :
        lbs[id].built =>
            /\ Calls(id) <= UsizeModulus => Cardinality(Observed(id)) = Calls(id)
            /\ lbs[id].current_index = Calls(id) % UsizeModulus

\* two calls overlapped and returned in the opposite order of their fetch_add
C9_Witness ==
    /\ overlap
    /\ Len(picks["lb1"]) >= 2
    /\ picks["lb1"][1].current > picks["lb1"][2].current
    /\ InFlight("lb1") # {}

C25_EmptyLoadBalancer ==
    /\ panicked # "assert_servers_nonempty"
    /\ \A id \in LbIds :
          (lbs[id].built /\ Len(lbs[id].servers) = 0) => picks[id] = <<>>


\* C33: the round-robin sequence stays even when the machine-word counter
\* wraps to 0: for every server count S, also one that does not divide
\* 2^w, each sequential pick selects the cyclic successor of the server
\* picked just before it, and every server has been selected floor(N/S) or
\* ceil(N/S) times after N picks, across the wrap.
C33_WrapAround ==
    ~overlap =>
        \A id \in LbIds :
            LET N == Len(picks[id])
                S == Len(lbs[id].servers) IN
            lbs[id].built =>
                /\ \A i \in 2..N : picks[id][i].index = (picks[id][i - 1].index + 1) % S
                /\ \A k \in 1..S : Selected(id, k) \in {N \div S, (N + S - 1) \div S}

=======================================================================
